---------------------------- MODULE Spec2Model ----------------------------
(***************************************************************************)
(* LocalKeys: the Vault lock state machine (src/src/modules/vault.js), the *)
(* CryptoUtil primitives it uses (src/src/modules/i18n.js), the local RPC  *)
(* server (src/unnamed/part_004) and the approval dialog of the Electron   *)
(* main process (src/src/main.js).                                         *)
(*                                                                         *)
(* JavaScript runs one handler at a time: an action of this module is one  *)
(* run of a handler from the event that starts it to its next await on     *)
(* I/O (fs.writeFile, the request body, the approval promise) or a timer.  *)
(***************************************************************************)
EXTENDS Integers, Sequences, FiniteSets, TLC

(***************************************************************************)
(* Bounds of the model.                                                    *)
(***************************************************************************)
MaxInFlight == 2     \* fs.writeFile calls of the vault file in flight
MaxReq == 2          \* requests that reach the server or the approval dialog
MaxIpc == 1          \* answers of a dialog window on their way to the main process
MaxTicks == 3        \* steps of TickMs by which the clock advances
MaxLogCalls == 1003  \* calls of Logger.log in a row
MaxValueLen == 4     \* characters of a value that follows "password=" in a message
MaxMaskCalls == 2    \* messages with a password logged in a row

(***************************************************************************)
(* Program constants.                                                      *)
(***************************************************************************)
DebounceMs == 1000
ApprovalTimeoutMs == 30000
maxLogEntries == 1000
AutoLockMs == 300000

TickMs == DebounceMs \div 2
ApprovalTickMs == ApprovalTimeoutMs \div 2
AutoLockTickMs == AutoLockMs \div 2

(***************************************************************************)
(* Input domains.                                                          *)
(***************************************************************************)
Passwords == {"pw1", "pw2"}      \* passwords tried at unlock
SetupPasswords == {"pw1"}        \* passwords a vault is set up with
Salts == {"s1", "s2"}
IVs == {"iv1"}
Projects == {"p1"}
Keys == {"k1"}
Values == {"v1", "v2"}

Methods == {"POST", "GET", "OPTIONS"}
AuthToken == "token"

NULL == [tag |-> "null"]
CORRUPT == [tag |-> "corrupt"]
DECRYPT_ERROR == [tag |-> "error"]

VARIABLES
    \* Vault (vault.js:10-19)
    isLocked, data, key, saveTimeout,
    \* the files of the data directory: salt.txt and vault.enc
    saltFile, vaultFile,
    \* fs.writeFile calls of vault.enc that have not called back yet
    writes,
    \* the reading of the clock, new Date(), in ms, which the mutations stamp
    \* into the document.  No handler branches on a timestamp; the
    \* specifications below hold the reading fixed while timers elapse.
    now,
    \* the handler that ran last and how it ended
    ret

vaultVars == <<isLocked, data, key, saveTimeout, saltFile, vaultFile, writes,
               now, ret>>

VARIABLES
    \* main.js:12-19: the application's own flag and its main window
    isUnlocked, mainWindow,
    \* HttpServer (part_004:9-18): this.isUnlocked and this.approvalCallback
    serverIsUnlocked, approvalCallback,
    \* the requests, in order of arrival: where each handler stands, what it
    \* was sent and what it answered
    reqs,
    \* the approval dialog of each request: the closure of showApprovalDialog
    dialogs,
    \* the request whose ipcMain.once listener is on "approval-response-simple"
    \* (0: none), and the answers sent by dialog windows and not yet delivered
    listener, ipc,
    \* the http.Server of HttpServer.start (part_004:30-73): "listening",
    \* "closing" once close() has been called, "closed" once its callback
    \* has run; and whether ~/.localkeys/server-info.json exists
    server, infoFile,
    \* the log file of the Logger (part_005:9-12): NULL while there is none.
    \* Of the entries the application writes, the model keeps those about
    \* access to secrets.
    logs,
    \* main.js:17: the timer of setAutoLockTimer, and the reading of the
    \* clock when a "vault:setup" or "vault:unlock" handler last succeeded
    \* (-1: never), which the program does not keep
    autoLockTimer, unlockedAt

serverVars == <<isUnlocked, mainWindow, serverIsUnlocked, approvalCallback, reqs>>

gateVars == <<dialogs, listener, ipc>>

netVars == <<server, infoFile>>

timerVars == <<autoLockTimer, unlockedAt>>

vars == <<vaultVars, serverVars, gateVars, netVars, logs, timerVars>>

\* What the Vault does not touch.
App == <<serverVars, gateVars, netVars, logs, timerVars>>

(***************************************************************************)
(* CryptoUtil (i18n.js:123-205).  PBKDF2 and AES-256-GCM are modelled as   *)
(* ideal: a derived key is determined by (password, salt) and by nothing   *)
(* less, and a blob opens only under the key that sealed it.               *)
(***************************************************************************)
deriveKey(password, salt) == [tag |-> "key", pw |-> password, salt |-> salt]

\* salt.toString("hex") and Buffer.from(saltHex, "hex"), vault.js:40, 98.
toHex(salt) == [tag |-> "hex", bytes |-> salt]
fromHex(saltHex) == saltHex.bytes

encrypt(plaintext, k, iv) ==
    [tag |-> "blob", iv |-> iv, sealedBy |-> k, ciphertext |-> plaintext]

\* A variant of decrypt that takes the IV to be the first one instead of
\* reading it from the data, to try the properties on.
decryptFixedIv(encryptedData, k) ==
    IF /\ encryptedData.tag = "blob"
       /\ encryptedData.sealedBy = k
       /\ encryptedData.iv = "iv1"
    THEN encryptedData.ciphertext
    ELSE DECRYPT_ERROR

decrypt(encryptedData, k) ==
    IF encryptedData.tag = "blob" /\ encryptedData.sealedBy = k
    THEN encryptedData.ciphertext
    ELSE DECRYPT_ERROR

\* JSON.stringify of a vault document: a property whose value is undefined
\* is left out; everything else is kept.
UNDEFINED == "undefined"

stringifySecrets(secrets) ==
    [k \in {x \in DOMAIN secrets : secrets[x] # UNDEFINED} |-> secrets[k]]

jsonStringify(doc) ==
    [tag |-> "json",
     createdAt |-> doc.createdAt,
     updatedAt |-> doc.updatedAt,
     projects |-> [p \in DOMAIN doc.projects |->
                     [createdAt |-> doc.projects[p].createdAt,
                      updatedAt |-> doc.projects[p].updatedAt,
                      secrets |-> stringifySecrets(doc.projects[p].secrets)]]]

jsonParse(text) ==
    IF text.tag = "json"
    THEN [tag |-> "doc",
          createdAt |-> text.createdAt,
          updatedAt |-> text.updatedAt,
          projects |-> text.projects]
    ELSE DECRYPT_ERROR

encryptJson(jsonData, k, iv) == encrypt(jsonStringify(jsonData), k, iv)

decryptJson(encryptedData, k) ==
    LET jsonString == decrypt(encryptedData, k)
    IN  IF jsonString = DECRYPT_ERROR THEN DECRYPT_ERROR ELSE jsonParse(jsonString)

(***************************************************************************)
(* Logger (part_005; logger.js is the same in log).                        *)
(***************************************************************************)
LogFile(entries) == [tag |-> "log", entries |-> entries]

LogEntry(timestamp, category, message) ==
    [timestamp |-> timestamp, category |-> category, message |-> message]

\* The entries log() starts from: none when the file is missing or does
\* not parse (part_005:28-38).
readLogs(file) == IF file.tag = "log" THEN file.entries ELSE << >>

\* A variant of log that keeps the oldest entries, to try the properties on.
logKeepOldest(file, logEntry) ==
    LET all == Append(readLogs(file), logEntry)
    IN  LogFile(IF Len(all) > maxLogEntries
                THEN SubSeq(all, 1, maxLogEntries)
                ELSE all)

\* log(message, category), part_005:19-49: the file after the call.
log(file, logEntry) ==
    LET all == Append(readLogs(file), logEntry)
    IN  LogFile(IF Len(all) > maxLogEntries
                THEN SubSeq(all, Len(all) - maxLogEntries + 1, Len(all))
                ELSE all)

(***************************************************************************)
(* Vault                                                                   *)
(***************************************************************************)
\* A variant of exists that never finds the vault, to try the properties on.
existsNever == FALSE

\* exists(), vault.js:25-27.
exists == vaultFile # NULL /\ saltFile # NULL

EmptyDoc(t) == [tag |-> "doc", createdAt |-> t, updatedAt |-> t,
                projects |-> << >>]

NoTimer == [state |-> "none", remaining |-> 0]
Armed(ms) == [state |-> "armed", remaining |-> ms]
Fired == [state |-> "fired", remaining |-> 0]

Ret(op, result) == [op |-> op, result |-> result]

\* fs.writeFile(vaultPath, blob, cb) issued by `op`: the call is in flight
\* until its callback runs.  Calls in flight on one file at a time race.
StartWrite(ws, op, blob) ==
    Append([i \in 1..Len(ws) |-> [ws[i] EXCEPT !.raced = TRUE]],
           [op |-> op, blob |-> blob, raced |-> Len(ws) > 0])

RemoveAt(s, i) == [j \in 1..(Len(s) - 1) |-> IF j < i THEN s[j] ELSE s[j + 1]]

\* _save / _saveSync return at once when there is nothing to encrypt
\* (vault.js:284-286, 312-314).
canSave == data # NULL /\ key # NULL

InitVault ==
    /\ isLocked = TRUE
    /\ data = NULL
    /\ key = NULL
    /\ saveTimeout = NoTimer
    /\ saltFile = NULL
    /\ vaultFile = NULL
    /\ writes = << >>
    /\ now = 0
    /\ ret = Ret("new", "ok")

\* crypto.randomBytes(32) (i18n.js:141-143): a salt that is not the one on
\* disk; the first salt ever drawn is named s1.
generateSalt == IF saltFile = NULL THEN {"s1"} ELSE Salts \ {fromHex(saltFile)}

\* setup(password), vault.js:33-63, up to `await this._save()`.
setup(password, salt, iv) ==
    IF exists
    THEN /\ ret' = Ret("setup", "Vault already exists")
         /\ UNCHANGED <<isLocked, data, key, saveTimeout, saltFile, vaultFile,
                        writes, now>>
    ELSE /\ Len(writes) < MaxInFlight
         /\ saltFile' = toHex(salt)
         /\ key' = deriveKey(password, salt)
         /\ data' = EmptyDoc(now)
         /\ writes' = StartWrite(writes, "setup",
                                 encryptJson(EmptyDoc(now), deriveKey(password, salt), iv))
         /\ ret' = Ret("setup", "pending")
         /\ UNCHANGED <<isLocked, saveTimeout, vaultFile, now>>

\* A variant of unlock that locks the vault when the password is wrong, to
\* try the properties on.
unlockOrLock(password) ==
    IF ~exists
    THEN /\ ret' = Ret("unlock", "Vault does not exist")
         /\ UNCHANGED <<isLocked, data, key, saveTimeout, saltFile, vaultFile,
                        writes, now>>
    ELSE LET k == deriveKey(password, fromHex(saltFile))
             d == decryptJson(vaultFile, k)
         IN  /\ IF d # DECRYPT_ERROR
                THEN /\ key' = k
                     /\ data' = d
                     /\ isLocked' = FALSE
                     /\ ret' = Ret("unlock", "ok")
                ELSE /\ key' = NULL
                     /\ data' = NULL
                     /\ isLocked' = TRUE
                     /\ ret' = Ret("unlock", "Invalid password")
             /\ UNCHANGED <<saveTimeout, saltFile, vaultFile, writes, now>>

\* A variant of unlock that parses the decrypted text outside the try
\* block, to try the properties on: a text that is no JSON raises the
\* parser's error and the derived key stays.
unlockParseOutside(password) ==
    IF ~exists
    THEN /\ ret' = Ret("unlock", "Vault does not exist")
         /\ UNCHANGED <<isLocked, data, key, saveTimeout, saltFile, vaultFile,
                        writes, now>>
    ELSE LET k == deriveKey(password, fromHex(saltFile))
             t == decrypt(vaultFile, k)
         IN  /\ IF t = DECRYPT_ERROR
                THEN /\ key' = NULL
                     /\ data' = NULL
                     /\ ret' = Ret("unlock", "Invalid password")
                     /\ UNCHANGED isLocked
                ELSE IF jsonParse(t) = DECRYPT_ERROR
                THEN /\ key' = k
                     /\ ret' = Ret("unlock", "SyntaxError")
                     /\ UNCHANGED <<isLocked, data>>
                ELSE /\ key' = k
                     /\ data' = jsonParse(t)
                     /\ isLocked' = FALSE
                     /\ ret' = Ret("unlock", "ok")
             /\ UNCHANGED <<saveTimeout, saltFile, vaultFile, writes, now>>

\* unlock(password), vault.js:69-113.  The body has no await: it runs whole.
unlock(password) ==
    IF ~exists
    THEN /\ ret' = Ret("unlock", "Vault does not exist")
         /\ UNCHANGED <<isLocked, data, key, saveTimeout, saltFile, vaultFile,
                        writes, now>>
    ELSE LET k == deriveKey(password, fromHex(saltFile))
             d == decryptJson(vaultFile, k)
         IN  /\ IF d # DECRYPT_ERROR
                THEN /\ key' = k
                     /\ data' = d
                     /\ isLocked' = FALSE
                     /\ ret' = Ret("unlock", "ok")
                ELSE /\ key' = NULL
                     /\ data' = NULL
                     /\ ret' = Ret("unlock", "Invalid password")
                     /\ UNCHANGED isLocked
             /\ UNCHANGED <<saveTimeout, saltFile, vaultFile, writes, now>>

\* The tail of lock(), vault.js:134-136.
Discard ==
    /\ data' = NULL
    /\ key' = NULL
    /\ isLocked' = TRUE

\* lock(sync), vault.js:119-138, up to `await this._save()`; with sync it
\* runs whole, and writeFileSync either writes the file or throws.
lock(sync, iv, writeOk) ==
    IF isLocked
    THEN /\ ret' = Ret("lock", "ok")
         /\ UNCHANGED <<isLocked, data, key, saveTimeout, saltFile, vaultFile,
                        writes, now>>
    ELSE /\ saveTimeout' = NoTimer
         /\ UNCHANGED <<saltFile, now>>
         /\ IF ~canSave
            THEN /\ Discard
                 /\ ret' = Ret("lock", "ok")
                 /\ UNCHANGED <<vaultFile, writes>>
            ELSE IF sync
            THEN /\ writes' = [i \in 1..Len(writes) |-> [writes[i] EXCEPT !.raced = TRUE]]
                 /\ IF writeOk
                    THEN /\ vaultFile' = encryptJson(data, key, iv)
                         /\ Discard
                         /\ ret' = Ret("lock", "ok")
                    ELSE /\ vaultFile' \in {vaultFile, CORRUPT}
                         /\ ret' = Ret("lock", "error")
                         /\ UNCHANGED <<isLocked, data, key>>
            ELSE /\ Len(writes) < MaxInFlight
                 /\ writes' = StartWrite(writes, "lock", encryptJson(data, key, iv))
                 /\ ret' = Ret("lock", "pending")
                 /\ UNCHANGED <<isLocked, data, key, vaultFile>>

\* What runs after `await this._save()` resolves in the caller `w.op`.
Resume(w) ==
    CASE w.op = "setup" ->
            /\ isLocked' = FALSE
            /\ UNCHANGED <<data, key>>
      [] w.op = "lock" ->
            Discard
      [] OTHER -> UNCHANGED <<isLocked, data, key>>

\* The callback of fs.writeFile without an error, vault.js:291-303.
writeDone(i) ==
    LET w == writes[i]
    IN  /\ vaultFile' \in {w.blob} \cup (IF w.raced THEN {CORRUPT} ELSE {})
        /\ writes' = RemoveAt(writes, i)
        /\ Resume(w)
        /\ ret' = Ret(w.op, "ok")
        /\ UNCHANGED <<saveTimeout, saltFile, now>>

\* The callback of fs.writeFile with an error: the promise of _save is
\* rejected, the caller throws (setup, lock, saveNow) or logs (the timer).
writeFailed(i) ==
    LET w == writes[i]
    IN  /\ vaultFile' \in {vaultFile, CORRUPT}
        /\ writes' = RemoveAt(writes, i)
        /\ ret' = Ret(w.op, "error")
        /\ UNCHANGED <<isLocked, data, key, saveTimeout, saltFile, now>>

\* _ensureUnlocked (vault.js:273-277), then the first read of this.data:
\* on a vault that is unlocked without a document it raises a TypeError.
Refusal ==
    IF isLocked THEN "Vault is locked"
    ELSE IF data = NULL THEN "TypeError"
    ELSE "ok"

\* The property names an object literal inherits from Object.prototype
\* (constructor, toString, __proto__, ...): the one the inputs below use.
\* Reading such a property of an object that has none of its own gives
\* the inherited value, which is neither undefined nor falsy.
ObjectPrototype == {"constructor"}
INHERITED == "function"

\* this.data.projects[name] is truthy (vault.js:161, 183, 200, 216, 237,
\* 255), and name is a project of the document.
hasProject(name) == name \in DOMAIN data.projects \/ name \in ObjectPrototype
ownProject(name) == name \in DOMAIN data.projects

\* this.data.projects[name].secrets[k], for a project of the document.
readSecret(name, k) ==
    IF k \in DOMAIN data.projects[name].secrets
    THEN data.projects[name].secrets[k]
    ELSE IF k \in ObjectPrototype THEN INHERITED
    ELSE UNDEFINED

hasSecret(name, k) == readSecret(name, k) # UNDEFINED

\* A function with x mapped to v, and without x.
Put(f, x, v) == [y \in DOMAIN f \cup {x} |-> IF y = x THEN v ELSE f[y]]
Drop(f, x) == [y \in DOMAIN f \ {x} |-> f[y]]

\* A variant of _scheduleAutoSave that leaves a pending timer running, to
\* try the properties on.
AcceptKeepTimer(op, doc) ==
    /\ data' = doc
    /\ saveTimeout' = IF saveTimeout.state = "armed" THEN saveTimeout
                      ELSE [state |-> "armed", remaining |-> DebounceMs]
    /\ ret' = [op |-> op, result |-> "ok"]
    /\ UNCHANGED <<isLocked, key, saltFile, vaultFile, writes, now>>

\* _scheduleAutoSave, vault.js:331-345: the pending timer is replaced.
Accept(op, doc) ==
    /\ data' = doc
    /\ saveTimeout' = Armed(DebounceMs)
    /\ ret' = Ret(op, "ok")
    /\ UNCHANGED <<isLocked, key, saltFile, vaultFile, writes, now>>

Reject(op, error) ==
    /\ ret' = Ret(op, error)
    /\ UNCHANGED <<isLocked, data, key, saveTimeout, saltFile, vaultFile,
                   writes, now>>

\* createProject(name), vault.js:158-174.
createProject(name) ==
    IF Refusal # "ok" THEN Reject("createProject", Refusal)
    ELSE IF hasProject(name) THEN Reject("createProject", "already exists")
    ELSE Accept("createProject",
                [data EXCEPT !.projects = Put(@, name,
                                 [createdAt |-> now, updatedAt |-> now,
                                  secrets |-> << >>]),
                             !.updatedAt = now])

\* deleteProject(name), vault.js:180-190.
deleteProject(name) ==
    IF Refusal # "ok" THEN Reject("deleteProject", Refusal)
    ELSE IF ~hasProject(name) THEN Reject("deleteProject", "does not exist")
    ELSE Accept("deleteProject",
                [data EXCEPT !.projects = Drop(@, name), !.updatedAt = now])

\* setSecret(projectName, key, value), vault.js:234-245.
setSecret(projectName, k, value) ==
    IF Refusal # "ok" THEN Reject("setSecret", Refusal)
    ELSE IF ~hasProject(projectName) THEN Reject("setSecret", "does not exist")
    ELSE IF ~ownProject(projectName) THEN Reject("setSecret", "TypeError")
    ELSE Accept("setSecret",
                [data EXCEPT !.projects[projectName].secrets = Put(@, k, value),
                             !.projects[projectName].updatedAt = now,
                             !.updatedAt = now])

\* deleteSecret(projectName, key), vault.js:252-267.
deleteSecret(projectName, k) ==
    IF Refusal # "ok" THEN Reject("deleteSecret", Refusal)
    ELSE IF ~hasProject(projectName) THEN Reject("deleteSecret", "does not exist")
    ELSE IF ~ownProject(projectName) THEN Reject("deleteSecret", "TypeError")
    ELSE IF ~hasSecret(projectName, k) THEN Reject("deleteSecret", "does not exist")
    ELSE Accept("deleteSecret",
                [data EXCEPT !.projects[projectName].secrets = Drop(@, k),
                             !.projects[projectName].updatedAt = now,
                             !.updatedAt = now])

\* The callback of the debounce timer, vault.js:338-344.  The handle kept
\* in this.saveTimeout is not cleared when the timer has fired.
autoSave(iv) ==
    /\ saveTimeout.state = "armed"
    /\ saveTimeout.remaining = 0
    /\ saveTimeout' = Fired
    /\ ret' = Ret("autoSave", IF canSave THEN "pending" ELSE "ok")
    /\ IF canSave
       THEN /\ Len(writes) < MaxInFlight
            /\ writes' = StartWrite(writes, "autoSave", encryptJson(data, key, iv))
       ELSE UNCHANGED writes
    /\ UNCHANGED <<isLocked, data, key, saltFile, vaultFile, now>>

\* saveNow(), vault.js:351-363.
saveNow(iv) ==
    IF isLocked
    THEN Reject("saveNow", "Vault is locked")
    ELSE /\ saveTimeout' = NoTimer
         /\ ret' = Ret("saveNow", IF canSave THEN "pending" ELSE "ok")
         /\ IF canSave
            THEN /\ Len(writes) < MaxInFlight
                 /\ writes' = StartWrite(writes, "saveNow", encryptJson(data, key, iv))
            ELSE UNCHANGED writes
         /\ UNCHANGED <<isLocked, data, key, saltFile, vaultFile, now>>

\* getProjects(), vault.js:144-152: what it returns, or the error it throws.
getProjects ==
    IF Refusal # "ok" THEN [error |-> Refusal, names |-> {}]
    ELSE [error |-> "", names |-> DOMAIN data.projects]

\* getSecrets(projectName), vault.js:197-205.
getSecrets(projectName) ==
    IF Refusal # "ok" THEN [error |-> Refusal, secrets |-> << >>]
    ELSE IF ~hasProject(projectName)
    THEN [error |-> "does not exist", secrets |-> << >>]
    ELSE IF ~ownProject(projectName) THEN [error |-> "", secrets |-> << >>]
    ELSE [error |-> "", secrets |-> data.projects[projectName].secrets]

\* getSecret(projectName, key), vault.js:213-226.
getSecret(projectName, k) ==
    IF Refusal # "ok" THEN [error |-> Refusal, value |-> UNDEFINED]
    ELSE IF ~hasProject(projectName)
    THEN [error |-> "does not exist", value |-> UNDEFINED]
    ELSE IF ~ownProject(projectName)
    THEN [error |-> "TypeError", value |-> UNDEFINED]
    ELSE IF ~hasSecret(projectName, k)
    THEN [error |-> "does not exist", value |-> UNDEFINED]
    ELSE [error |-> "", value |-> readSecret(projectName, k)]

(***************************************************************************)
(* Time: dt ms pass on every timer set by setTimeout.                      *)
(***************************************************************************)
Elapse(timer, dt) ==
    IF timer.state = "armed"
    THEN Armed(IF timer.remaining > dt THEN timer.remaining - dt ELSE 0)
    ELSE timer

Running(timer) == timer.state = "armed" /\ timer.remaining > 0

\* A dialog that is waiting grows older; its age stops at the timeout.
Aged(dlg, dt) ==
    IF dlg.timeout.state = "armed"
    THEN [dlg EXCEPT !.timeout = Elapse(@, dt),
                     !.age = IF @ + dt > ApprovalTimeoutMs
                             THEN ApprovalTimeoutMs ELSE @ + dt]
    ELSE dlg

tick(dt) ==
    /\ Running(saveTimeout) \/ \E d \in 1..MaxReq : Running(dialogs[d].timeout)
    /\ saveTimeout' = Elapse(saveTimeout, dt)
    /\ dialogs' = [d \in 1..MaxReq |-> Aged(dialogs[d], dt)]
    /\ UNCHANGED <<isLocked, data, key, saltFile, vaultFile, writes, now, ret>>
    /\ UNCHANGED <<serverVars, listener, ipc>>
    /\ UNCHANGED <<netVars, logs, timerVars>>

(***************************************************************************)
(* The approval dialog, showApprovalDialog (main.js:399-507).  Each call   *)
(* has its own window, timeout and isResolved; the channel on which a      *)
(* window answers, "approval-response-simple", is one for all calls.       *)
(***************************************************************************)
Pending == [approved |-> FALSE, reason |-> "<pending>"]
Approved == [approved |-> TRUE, reason |-> UNDEFINED]
Denied(reason) == [approved |-> FALSE, reason |-> reason]

NoDialog == [window |-> "none", timeout |-> NoTimer, isResolved |-> FALSE,
             result |-> Pending, resolves |-> 0, age |-> 0]

\* A variant of doResolve without its isResolved guard, to try the
\* properties on.
doResolveAgain(dlg, result) ==
    [dlg EXCEPT !.isResolved = TRUE,
                !.timeout = NoTimer,
                !.window = IF @ = "none" THEN "none" ELSE "closed",
                !.result = result,
                !.resolves = @ + 1]

\* cleanup and doResolve, main.js:418-436.  `resolves` counts the calls of
\* the promise's resolve.
doResolve(dlg, result) ==
    IF dlg.isResolved THEN dlg
    ELSE [dlg EXCEPT !.isResolved = TRUE,
                     !.timeout = NoTimer,
                     !.window = IF @ = "none" THEN "none" ELSE "closed",
                     !.result = result,
                     !.resolves = @ + 1]

\* The body of showApprovalDialog: without a main window the promise is
\* resolved at once (main.js:406-412); when the window cannot be created
\* the catch resolves it (main.js:502-505); otherwise the window loads,
\* the timeout is set and the call takes the channel's listener over
\* (main.js:439-482).
\* A variant of the timeout that is set to half the time.
HalfTimer == Armed(ApprovalTickMs)

ApprovalTimer == Armed(ApprovalTimeoutMs)

openDialog(windowOk) ==
    IF ~mainWindow
    THEN [NoDialog EXCEPT !.result = Denied("Running in headless mode"),
                          !.resolves = 1]
    ELSE IF ~windowOk
    THEN doResolve(NoDialog, Denied("Error"))
    ELSE [NoDialog EXCEPT !.window = "loading", !.timeout = ApprovalTimer]

listenerAfterOpen(d, windowOk) ==
    IF mainWindow /\ windowOk THEN d ELSE listener

Waiting(dlg) == dlg.window \in {"loading", "loaded"} /\ dlg.resolves = 0

(***************************************************************************)
(* HttpServer (part_004, and http-server.js where the two differ).         *)
(***************************************************************************)
Bearer(token) == [scheme |-> "Bearer", token |-> token]
Basic(token) == [scheme |-> "Basic", token |-> token]

\* The Authorization header of a request: NULL when there is none.
AuthHeaders == {NULL, Bearer(AuthToken), Bearer("wrong"), Basic(AuthToken)}

\* The parsed body of a request, { action, data }.
Body(action, projectName, k, keys, value) ==
    [valid |-> TRUE, action |-> action, projectName |-> projectName,
     key |-> k, keys |-> keys, value |-> value]

InvalidJson == [Body("", "", "", {}, "") EXCEPT !.valid = FALSE]

\* The keys of a getBatchSecrets request: keys that can be set, and with
\* them one that no project holds.
BatchKeys == {Keys, Keys \cup {"k0"}}

Bodies ==
    {InvalidJson, Body("listProjects", "", "", {}, ""), Body("status", "", "", {}, ""),
     Body("unknown", "", "", {}, "")}
    \cup {Body("listSecretKeys", p, "", {}, "") : p \in Projects}
    \cup {Body("getSecrets", p, "", {}, "") : p \in Projects}
    \cup {Body("getSecret", p, k, {}, "") : p \in Projects, k \in Keys}
    \cup {Body("getBatchSecrets", p, "", ks, "") : p \in Projects, ks \in BatchKeys}
    \cup {Body("setSecret", p, k, {}, v) : p \in Projects, k \in Keys, v \in Values}

\* A response body: { success, error, data }.  The reason of a refused
\* approval, which the code appends to "Access denied: ", is kept apart.
Fail(error) == [success |-> FALSE, error |-> error, reason |-> "", data |-> NULL]
Ok(d) == [success |-> TRUE, error |-> "", reason |-> "", data |-> d]
AccessDenied(reason) == [Fail("Access denied") EXCEPT !.reason = reason]

\* What a request handler has been sent and has answered so far.
\* calledVault and calledApproval record that the handler has called a
\* method of the vault, or the approval callback.
NewReq ==
    [pc |-> "idle", via |-> "", method |-> "", authorization |-> NULL,
     action |-> "", projectName |-> "", key |-> "", keys |-> {},
     status |-> 0, body |-> NULL,
     calledVault |-> FALSE, calledApproval |-> FALSE]

Finish(q, status, body) ==
    [q EXCEPT !.pc = "done", !.status = status, !.body = body]

\* Variants of authenticateRequest, to try the properties on: one lets every
\* request through, one every request with a Bearer header.
authenticateEveryone(authorization) == ""

authenticateAnyBearer(authorization) ==
    IF authorization = NULL \/ authorization.scheme # "Bearer"
    THEN "Authorization required"
    ELSE ""

\* authenticateRequest, part_004:100-117: the error it answers with, ""
\* when the request passes.
authenticateRequest(authorization) ==
    IF authorization = NULL \/ authorization.scheme # "Bearer"
    THEN "Authorization required"
    ELSE IF authorization.token # AuthToken THEN "Invalid token"
    ELSE ""

\* Requests are numbered in the order in which they arrive.
Arrives(r) ==
    /\ reqs[r].pc = "idle"
    /\ IF r = 1 THEN TRUE ELSE reqs[r - 1].pc # "idle"

\* handleRequest, part_004:131-155, up to `await this.parseRequestBody(req)`.
\* A server that is closing accepts no connection.
receive(r, method, authorization) ==
    /\ Arrives(r)
    /\ server = "listening"
    /\ LET q == [reqs[r] EXCEPT !.via = "http", !.method = method,
                                !.authorization = authorization]
       IN  reqs' = [reqs EXCEPT ![r] =
             IF method = "OPTIONS" THEN Finish(q, 200, NULL)
             ELSE IF method # "POST" THEN Finish(q, 405, Fail("Method not allowed"))
             ELSE IF authenticateRequest(authorization) # ""
             THEN Finish(q, 401, Fail(authenticateRequest(authorization)))
             ELSE [q EXCEPT !.pc = "body"]]
    /\ UNCHANGED <<vaultVars, gateVars>>
    /\ UNCHANGED <<isUnlocked, mainWindow, serverIsUnlocked, approvalCallback>>
    /\ UNCHANGED <<netVars, logs, timerVars>>

\* A variant of the answer in which a key that cannot be read fails the
\* whole batch, to try the properties on.
AnswerAllOrNothing(q, result) ==
    IF ~result.approved
    THEN Finish(q, 200, AccessDenied("User denied"))
    ELSE IF \E k \in q.keys : getSecret(q.projectName, k).error # ""
    THEN Finish([q EXCEPT !.calledVault = TRUE], 200, Fail("does not exist"))
    ELSE Finish([q EXCEPT !.calledVault = TRUE], 200,
                Ok([kind |-> "secrets",
                    secrets |-> [k \in q.keys |-> getSecret(q.projectName, k).value]]))

\* The entries about access to secrets: logger.log(message) of main.js,
\* with the project and the key(s) that the message names, none for a
\* message that names neither (main.js:499, 503).
AccessEntry(event, q) ==
    LogEntry(now, "app", [event |-> event, projectName |-> q.projectName,
                          keys |-> q.keys])

BareEntry(event) ==
    LogEntry(now, "app", [event |-> event, projectName |-> "", keys |-> {}])

\* What showApprovalDialog logs before it returns (main.js:406-412, 458,
\* 502-505).
logAfterOpen(q, windowOk) ==
    IF ~mainWindow THEN log(logs, AccessEntry("headless", q))
    ELSE IF ~windowOk THEN log(logs, BareEntry("error"))
    ELSE log(logs, AccessEntry("requested", q))

\* What the handler logs once the promise is resolved with `result`: the
\* handler of "secret:get" logs the access, after the vault has returned
\* the value, or the denial (main.js:339-345); handleAction logs nothing.
logAfterAnswer(file, q, result) ==
    IF q.via # "ipc" THEN file
    ELSE IF ~result.approved THEN log(file, AccessEntry("access denied", q))
    ELSE IF getSecret(q.projectName, q.key).error = ""
    THEN log(file, AccessEntry("accessed", q))
    ELSE file

\* What handleAction answers once the approval promise is resolved with
\* `result` (part_004:232-245, 256-262), and what the handler of
\* "secret:get" answers (main.js:339-346; it does not catch).
Answer(q, result) ==
    IF ~result.approved
    THEN Finish(q, IF q.via = "http" THEN 200 ELSE 0,
                AccessDenied(IF q.via # "http" THEN ""
                             ELSE IF result.reason # UNDEFINED THEN result.reason
                             ELSE "User denied"))
    ELSE IF q.action = "getBatchSecrets"
    THEN LET found == {k \in q.keys : getSecret(q.projectName, k).error = ""}
         IN  Finish([q EXCEPT !.calledVault = @ \/ q.keys # {}], 200,
                    Ok([kind |-> "secrets",
                        secrets |-> [k \in found |-> getSecret(q.projectName, k).value]]))
    ELSE LET got == getSecret(q.projectName, q.key)
         IN  Finish([q EXCEPT !.calledVault = TRUE],
                    IF q.via = "http" THEN 200 ELSE 0,
                    IF got.error = "" THEN Ok([kind |-> "value", value |-> got.value])
                    ELSE Fail(got.error))

\* An event of dialog d logs logEntry and calls doResolve(result); when
\* that settles the promise, the handler that awaits it runs on before any
\* other event is handled.
Settle(d, logEntry, result) ==
    LET dlg == doResolve(dialogs[d], result)
        settles == dlg.resolves > dialogs[d].resolves /\ reqs[d].pc = "approval"
    IN  /\ dialogs' = [dialogs EXCEPT ![d] = dlg]
        /\ reqs' = IF settles THEN [reqs EXCEPT ![d] = Answer(@, result)]
                   ELSE reqs
        /\ logs' = IF settles
                   THEN logAfterAnswer(log(logs, logEntry), reqs[d], result)
                   ELSE log(logs, logEntry)

\* A variant of requestBatchApproval that approves when no callback is
\* registered, to try the properties on.
requestBatchApprovalAllow(r, q, windowOk) ==
    /\ reqs' = [reqs EXCEPT ![r] = Answer(q, Approved)]
    /\ UNCHANGED <<gateVars, logs>>

\* requestBatchApproval (part_004:313-320) called by request r, which has
\* become q: without a callback the request is refused at once; otherwise
\* showApprovalDialog runs and the handler awaits its promise.
requestBatchApproval(r, q, windowOk) ==
    IF approvalCallback = NULL
    THEN /\ reqs' = [reqs EXCEPT ![r] =
                       Answer(q, Denied("No approval handler available"))]
         /\ UNCHANGED <<gateVars, logs>>
    ELSE LET dlg == openDialog(windowOk)
             asked == [q EXCEPT !.calledApproval = TRUE]
         IN  /\ dialogs' = [dialogs EXCEPT ![r] = dlg]
             /\ listener' = listenerAfterOpen(r, windowOk)
             /\ reqs' = [reqs EXCEPT ![r] =
                           IF dlg.resolves > 0 THEN Answer(asked, dlg.result)
                           ELSE [asked EXCEPT !.pc = "approval"]]
             /\ logs' = logAfterOpen(q, windowOk)
             /\ UNCHANGED ipc

\* The actions of handleAction that read the vault and answer at once
\* (part_004:205-222, 275-287); an error thrown by the vault is caught and
\* answered (part_004:290-292).  "getSecrets" is an action of the server
\* that main.js loads (http-server.js:206-212); "listSecretKeys" is the
\* action of part_004 in its place.
handleRead(q) ==
    CASE q.action = "listProjects" ->
            IF ~serverIsUnlocked THEN Finish(q, 200, Fail("Vault is locked"))
            ELSE Finish([q EXCEPT !.calledVault = TRUE], 200,
                        IF getProjects.error # "" THEN Fail(getProjects.error)
                        ELSE Ok([kind |-> "projects", names |-> getProjects.names]))
      [] q.action = "listSecretKeys" ->
            IF ~serverIsUnlocked THEN Finish(q, 200, Fail("Vault is locked"))
            ELSE Finish([q EXCEPT !.calledVault = TRUE], 200,
                        IF getSecrets(q.projectName).error # ""
                        THEN Fail(getSecrets(q.projectName).error)
                        ELSE Ok([kind |-> "keys",
                                 keys |-> DOMAIN getSecrets(q.projectName).secrets]))
      [] q.action = "getSecrets" ->
            IF ~serverIsUnlocked THEN Finish(q, 200, Fail("Vault is locked"))
            ELSE Finish([q EXCEPT !.calledVault = TRUE], 200,
                        IF getSecrets(q.projectName).error # ""
                        THEN Fail(getSecrets(q.projectName).error)
                        ELSE Ok([kind |-> "secrets",
                                 secrets |-> getSecrets(q.projectName).secrets]))
      [] q.action = "status" ->
            Finish(q, 200, Ok([kind |-> "status", isUnlocked |-> serverIsUnlocked]))
      [] q.action \in {"getSecret", "getBatchSecrets", "setSecret"} ->
            Finish(q, 200, Fail("Vault is locked"))
      [] OTHER -> Finish(q, 200, Fail("Unknown action"))

\* handleRequest from the end of the body on (part_004:155-171):
\* parseRequestBody, then handleAction up to its await or its end.
bodyEnd(r, body, windowOk) ==
    /\ reqs[r].pc = "body"
    /\ UNCHANGED <<isUnlocked, mainWindow, serverIsUnlocked, approvalCallback>>
    /\ LET q == [reqs[r] EXCEPT !.action = body.action,
                                !.projectName = body.projectName,
                                !.key = body.key, !.keys = body.keys]
       IN  IF ~body.valid
           THEN /\ reqs' = [reqs EXCEPT ![r] = Finish(reqs[r], 500, Fail("Invalid JSON"))]
                /\ UNCHANGED <<vaultVars, gateVars, logs>>
           ELSE IF serverIsUnlocked /\ body.action = "setSecret"
           THEN /\ setSecret(body.projectName, body.key, body.value)
                /\ reqs' = [reqs EXCEPT ![r] =
                              Finish([q EXCEPT !.calledVault = TRUE], 200,
                                     IF ret'.result = "ok" THEN Ok(NULL)
                                     ELSE Fail(ret'.result))]
                /\ UNCHANGED <<gateVars, logs>>
           ELSE IF serverIsUnlocked /\ body.action \in {"getSecret", "getBatchSecrets"}
           THEN /\ requestBatchApproval(r, [q EXCEPT !.keys = IF body.action = "getSecret"
                                                               THEN {body.key} ELSE body.keys],
                                        windowOk)
                /\ UNCHANGED vaultVars
           ELSE /\ reqs' = [reqs EXCEPT ![r] = handleRead(q)]
                /\ UNCHANGED <<vaultVars, gateVars, logs>>
    /\ UNCHANGED <<netVars, timerVars>>

(***************************************************************************)
(* The handlers of the main process (main.js).                             *)
(***************************************************************************)
\* setAutoLockTimer, main.js:131-141: the timer that was pending is cleared
\* and a new one is due in five minutes.  The timer is kept by the reading
\* of the clock at which it is due.
setAutoLockTimer == [state |-> "armed", due |-> now + AutoLockMs]

\* ipcMain.handle("vault:unlock"), main.js:251-268: the flags follow the
\* vault when unlock returns and are left alone when it throws.
ipcUnlock(password) ==
    /\ unlock(password)
    /\ IF ret'.result = "ok"
       THEN /\ isUnlocked' = ~isLocked'
            /\ serverIsUnlocked' = ~isLocked'
            /\ autoLockTimer' = setAutoLockTimer
            /\ unlockedAt' = now
       ELSE UNCHANGED <<isUnlocked, serverIsUnlocked, timerVars>>
    /\ UNCHANGED <<mainWindow, approvalCallback, reqs, gateVars>>
    /\ UNCHANGED <<netVars, logs>>

\* lockVault, main.js:144-164: vault.lock() is called and not awaited.
lockVault(iv) ==
    /\ isUnlocked
    /\ IF ~isLocked
       THEN lock(FALSE, iv, TRUE)
       ELSE UNCHANGED vaultVars
    /\ isUnlocked' = FALSE
    /\ serverIsUnlocked' = FALSE
    /\ UNCHANGED <<mainWindow, approvalCallback, reqs, gateVars>>
    /\ UNCHANGED <<netVars, logs>>

\* ipcMain.handle("vault:lock"), main.js:271-274, and "Lock Vault" of the
\* tray menu, main.js:85-92.
ipcLock(iv) == lockVault(iv) /\ UNCHANGED timerVars

\* The callback of the timer of setAutoLockTimer, main.js:136-140.
autoLock(iv) ==
    /\ autoLockTimer.state = "armed"
    /\ now >= autoLockTimer.due
    /\ autoLockTimer' = Fired
    /\ UNCHANGED unlockedAt
    /\ IF isUnlocked
       THEN lockVault(iv)
       ELSE UNCHANGED <<vaultVars, serverVars, gateVars, netVars, logs>>

\* ipcMain.handle("vault:setup"), main.js:231-248, up to the await; when
\* setup throws at once the handler answers with the error.
ipcSetup(password, salt, iv) == setup(password, salt, iv) /\ UNCHANGED App

\* The handler of "vault:setup" after the await, when setup has returned.
ipcSetupDone(i) ==
    /\ writes[i].op = "setup"
    /\ writeDone(i)
    /\ isUnlocked' = ~isLocked'
    /\ serverIsUnlocked' = ~isLocked'
    /\ autoLockTimer' = setAutoLockTimer
    /\ unlockedAt' = now
    /\ UNCHANGED <<mainWindow, approvalCallback, reqs, gateVars, netVars, logs>>

\* ipcMain.handle("projects:get"), main.js:277-280.
ipcProjectsGet ==
    /\ ret' = Ret("projects:get",
                  IF ~isUnlocked THEN "Vault is locked"
                  ELSE IF getProjects.error # "" THEN getProjects.error
                  ELSE "ok")
    /\ UNCHANGED <<isLocked, data, key, saveTimeout, saltFile, vaultFile,
                   writes, now>>
    /\ UNCHANGED App

\* ipcMain.handle("project:create"), main.js:283-291.
ipcProjectCreate(name) ==
    /\ IF ~isUnlocked
       THEN /\ ret' = Ret("project:create", "Vault is locked")
            /\ UNCHANGED <<isLocked, data, key, saveTimeout, saltFile,
                           vaultFile, writes, now>>
       ELSE createProject(name)
    /\ UNCHANGED App

\* ipcMain.handle("secret:get"), main.js:330-346, up to the await.
secretGet(r, projectName, k, windowOk) ==
    /\ Arrives(r)
    /\ UNCHANGED <<vaultVars, isUnlocked, mainWindow, serverIsUnlocked,
                   approvalCallback>>
    /\ LET q == [reqs[r] EXCEPT !.via = "ipc", !.action = "secret:get",
                                !.projectName = projectName,
                                !.key = k, !.keys = {k}]
       IN  IF ~isUnlocked
           THEN /\ reqs' = [reqs EXCEPT ![r] = Finish(q, 0, Fail("Vault is locked"))]
                /\ UNCHANGED <<gateVars, logs>>
           ELSE LET dlg == openDialog(windowOk)
                    asked == [q EXCEPT !.calledApproval = TRUE]
                IN  /\ dialogs' = [dialogs EXCEPT ![r] = dlg]
                    /\ listener' = listenerAfterOpen(r, windowOk)
                    /\ reqs' = [reqs EXCEPT ![r] =
                                  IF dlg.resolves > 0 THEN Answer(asked, dlg.result)
                                  ELSE [asked EXCEPT !.pc = "approval"]]
                    /\ logs' = IF dlg.resolves > 0
                               THEN logAfterAnswer(logAfterOpen(q, windowOk),
                                                   q, dlg.result)
                               ELSE logAfterOpen(q, windowOk)
                    /\ UNCHANGED ipc
    /\ UNCHANGED <<netVars, timerVars>>

(***************************************************************************)
(* The events of an approval dialog.                                       *)
(***************************************************************************)
\* webContents "did-finish-load", main.js:493-495.
finishLoad(d) ==
    /\ dialogs[d].window = "loading"
    /\ dialogs' = [dialogs EXCEPT ![d].window = "loaded"]
    /\ UNCHANGED <<vaultVars, serverVars, listener, ipc>>
    /\ UNCHANGED <<netVars, logs, timerVars>>

\* webContents "did-fail-load", main.js:498-501.
failLoad(d) ==
    /\ dialogs[d].window = "loading"
    /\ Settle(d, BareEntry("failed to load"), Denied("Failed to load dialog"))
    /\ UNCHANGED <<vaultVars, isUnlocked, mainWindow, serverIsUnlocked,
                   approvalCallback, listener, ipc>>
    /\ UNCHANGED <<netVars, timerVars>>

\* The user presses Approve or Deny in the window of dialog d: the window
\* sends the answer on the channel.
click(d, approved) ==
    /\ dialogs[d].window = "loaded"
    /\ Len(ipc) < MaxIpc
    /\ ipc' = Append(ipc, [from |-> d, approved |-> approved])
    /\ UNCHANGED <<vaultVars, serverVars, dialogs, listener>>
    /\ UNCHANGED <<netVars, logs, timerVars>>

\* The answer reaches the main process: the listener registered with
\* ipcMain.once runs and is removed (main.js:474-482); with no listener
\* the answer is dropped.
deliver ==
    /\ ipc # << >>
    /\ ipc' = Tail(ipc)
    /\ IF listener = 0
       THEN UNCHANGED <<dialogs, reqs, listener, logs>>
       ELSE /\ listener' = 0
            /\ IF Head(ipc).approved
               THEN Settle(listener, AccessEntry("approved", reqs[listener]), Approved)
               ELSE Settle(listener, AccessEntry("denied by user", reqs[listener]),
                           Denied("User denied"))
    /\ UNCHANGED <<vaultVars, isUnlocked, mainWindow, serverIsUnlocked,
                   approvalCallback>>
    /\ UNCHANGED <<netVars, timerVars>>

\* The user closes the window of dialog d, main.js:485-490.
closeDialog(d) ==
    /\ dialogs[d].window \in {"loading", "loaded"}
    /\ Settle(d, AccessEntry("dialog closed", reqs[d]), Denied("Dialog closed"))
    /\ UNCHANGED <<vaultVars, isUnlocked, mainWindow, serverIsUnlocked,
                   approvalCallback, listener, ipc>>
    /\ UNCHANGED <<netVars, timerVars>>

\* The callback of the timeout of dialog d, main.js:461-464.
timeoutFires(d) ==
    /\ dialogs[d].timeout = Armed(0)
    /\ Settle(d, AccessEntry("timeout", reqs[d]),
              Denied("Timeout after 30 seconds"))
    /\ UNCHANGED <<vaultVars, isUnlocked, mainWindow, serverIsUnlocked,
                   approvalCallback, listener, ipc>>
    /\ UNCHANGED <<netVars, timerVars>>

(***************************************************************************)
(* Specifications.                                                         *)
(***************************************************************************)
ShowApprovalDialog == [tag |-> "function", name |-> "showApprovalDialog"]

\* The main process after app.whenReady (main.js:510-513): no request has
\* arrived.  The callback is the one initializeApp registers (main.js:124),
\* or none for a server used on its own (part_004:17); the main window is
\* missing in headless mode (main.js:170-173).
InitApp ==
    /\ isUnlocked = FALSE
    /\ serverIsUnlocked = FALSE
    /\ reqs = [r \in 1..MaxReq |-> NewReq]
    /\ dialogs = [d \in 1..MaxReq |-> NoDialog]
    /\ listener = 0
    /\ ipc = << >>
    /\ server = "listening"
    /\ infoFile = TRUE
    /\ autoLockTimer = NoTimer
    /\ unlockedAt = -1

\* A first start: no vault on disk.
Init ==
    /\ InitVault
    /\ InitApp
    /\ mainWindow = TRUE
    /\ approvalCallback = ShowApprovalDialog
    /\ logs = NULL

\* A later start: the vault set up with StoredPassword is on disk and holds
\* one project with one secret.
StoredPassword == "pw1"
StoredKey == deriveKey(StoredPassword, "s1")
StoredDoc ==
    [EmptyDoc(0) EXCEPT !.projects =
        Put(<< >>, "p1", [createdAt |-> 0, updatedAt |-> 0,
                          secrets |-> Put(<< >>, "k1", "v1")])]

InitStored ==
    /\ isLocked = TRUE
    /\ data = NULL
    /\ key = NULL
    /\ saveTimeout = NoTimer
    /\ saltFile = toHex("s1")
    /\ vaultFile = encryptJson(StoredDoc, StoredKey, "iv1")
    /\ writes = << >>
    /\ now = 0
    /\ ret = Ret("new", "ok")
    /\ InitApp
    /\ mainWindow \in BOOLEAN
    /\ approvalCallback \in {NULL, ShowApprovalDialog}
    /\ logs = NULL

\* The Vault on its own, driven through its methods.
NextVault ==
    \/ \E pw \in SetupPasswords, s \in generateSalt, iv \in IVs :
            setup(pw, s, iv) /\ UNCHANGED App
    \/ \E pw \in Passwords : unlock(pw) /\ UNCHANGED App
    \/ \E sync \in BOOLEAN, iv \in IVs, ok \in BOOLEAN :
            lock(sync, iv, ok) /\ UNCHANGED App
    \/ \E i \in 1..Len(writes) : writeDone(i) /\ UNCHANGED App
    \/ \E i \in 1..Len(writes) : writeFailed(i) /\ UNCHANGED App
    \/ \E p \in Projects : createProject(p) /\ UNCHANGED App
    \/ \E p \in Projects : deleteProject(p) /\ UNCHANGED App
    \/ \E p \in Projects, k \in Keys, v \in Values :
            setSecret(p, k, v) /\ UNCHANGED App
    \/ \E p \in Projects, k \in Keys : deleteSecret(p, k) /\ UNCHANGED App
    \/ \E iv \in IVs : autoSave(iv) /\ UNCHANGED App
    \/ \E iv \in IVs : saveNow(iv) /\ UNCHANGED App
    \/ tick(TickMs)

SpecVault == Init /\ [][NextVault]_vars

\* The events of the approval dialogs.
NextDialogs ==
    \/ \E d \in 1..MaxReq : finishLoad(d)
    \/ \E d \in 1..MaxReq : failLoad(d)
    \/ \E d \in 1..MaxReq, approved \in BOOLEAN : click(d, approved)
    \/ deliver
    \/ \E d \in 1..MaxReq : closeDialog(d)
    \/ \E d \in 1..MaxReq : timeoutFires(d)

\* The server with the main process behind it: requests over HTTP.  The
\* vault is locked when no save is in flight, and time passes in steps of
\* the approval timeout.
NextServer ==
    \/ \E pw \in Passwords : ipcUnlock(pw)
    \/ \E iv \in IVs : writes = << >> /\ ipcLock(iv)
    \/ \E i \in 1..Len(writes) : writeDone(i) /\ UNCHANGED App
    \/ \E r \in 1..MaxReq, m \in Methods, h \in AuthHeaders : receive(r, m, h)
    \/ \E r \in 1..MaxReq, b \in Bodies, ok \in BOOLEAN : bodyEnd(r, b, ok)
    \/ NextDialogs
    \/ tick(ApprovalTimeoutMs)

SpecServer == InitStored /\ [][NextServer]_vars

\* The approval dialog under the "secret:get" handler of the main process.
NextGate ==
    \/ \E pw \in Passwords : ipcUnlock(pw)
    \/ \E r \in 1..MaxReq, p \in Projects, k \in Keys, ok \in BOOLEAN :
            secretGet(r, p, k, ok)
    \/ NextDialogs
    \/ tick(ApprovalTickMs)

SpecGate == InitStored /\ [][NextGate]_vars

\* Time passes, and the event loop runs the callback of a timer that is due.
FairTimers ==
    /\ WF_vars(tick(ApprovalTickMs))
    /\ \A d \in 1..MaxReq : WF_vars(timeoutFires(d))

SpecGateFair == SpecGate /\ FairTimers

(***************************************************************************)
(* Properties of the Vault, checked under SpecVault.                       *)
(***************************************************************************)

\* C1: in every state, an unlocked vault holds both its key and its
\* document, and a locked vault holds neither; this includes the states in
\* which setup or lock is suspended in its save and the states after a
\* failed setup or unlock.
C1_LockStateMatchesFields ==
    /\ ~isLocked => (key # NULL /\ data # NULL)
    /\ isLocked => (key = NULL /\ data = NULL)

\* C3: a run of unlock with a password other than the one the vault was
\* set up with ends in "Invalid password" and leaves the vault locked with
\* no key and no document, whether it started locked or unlocked.
C3_WrongPasswordLocks ==
    [][\A pw \in Passwords :
         (/\ exists
          /\ vaultFile # CORRUPT
          /\ pw # vaultFile.sealedBy.pw
          /\ unlock(pw))
         => (/\ ret'.result = "Invalid password"
             /\ isLocked'
             /\ key' = NULL
             /\ data' = NULL)]_vars

\* C10: when lock completes after its asynchronous save, the document on
\* disk is the document the vault held at that moment, which contains every
\* mutation accepted while the vault was unlocked, those accepted while lock
\* was suspended in the save included.
C10_LockPersistsEveryMutation ==
    [][(/\ ~isLocked
        /\ isLocked'
        /\ canSave
        /\ ret' = Ret("lock", "ok")
        /\ vaultFile' # CORRUPT)
       => decryptJson(vaultFile', key) = jsonParse(jsonStringify(data))]_vars

(***************************************************************************)
(* Properties of the server, checked under SpecServer.                     *)
(***************************************************************************)

\* The secret values that a response body carries.
SecretsIn(body) ==
    IF body = NULL THEN {}
    ELSE IF body.data = NULL THEN {}
    ELSE IF body.data.kind = "value" THEN {body.data.value}
    ELSE IF body.data.kind = "secrets"
    THEN {body.data.secrets[k] : k \in DOMAIN body.data.secrets}
    ELSE {}

Http(r) == reqs[r].via = "http"

\* C2: a response comes to carry a secret value only in the step that
\* delivers an Approve answer given in the dialog of that very request,
\* and then only values of the keys that dialog showed; the responses of
\* the other actions carry no secret value.
C2_SecretsOnlyWhenApproved ==
    [][\A r \in 1..MaxReq :
         (Http(r) /\ SecretsIn(reqs[r].body) = {} /\ SecretsIn(reqs'[r].body) # {})
         => (/\ reqs[r].pc = "approval"
             /\ ipc # << >>
             /\ ipc' = Tail(ipc)
             /\ Head(ipc).from = r
             /\ Head(ipc).approved
             /\ SecretsIn(reqs'[r].body) \subseteq
                  {getSecret(reqs[r].projectName, k).value : k \in reqs[r].keys})]_vars

\* The bearer token is missing or is not the server's.
Unauthenticated(authorization) == authorization # Bearer(AuthToken)

\* C4: a request whose bearer token is missing or wrong is answered in the
\* step in which it arrives; that step calls no method of the vault and not
\* the approval callback, opens no dialog and changes nothing but the
\* request's own response, and the request takes no later step.
C4_UnauthenticatedReachesNothing ==
    /\ [](\A r \in 1..MaxReq :
            (Http(r) /\ Unauthenticated(reqs[r].authorization))
            => (/\ reqs[r].pc = "done"
                /\ ~reqs[r].calledVault
                /\ ~reqs[r].calledApproval
                /\ dialogs[r] = NoDialog))
    /\ [][\A r \in 1..MaxReq :
            (Unauthenticated(reqs'[r].authorization) /\ Http(r)')
            => (/\ reqs[r].pc = "idle" =>
                     UNCHANGED <<vaultVars, isUnlocked, mainWindow,
                                 serverIsUnlocked, approvalCallback, gateVars>>
                /\ reqs[r].pc # "idle" => reqs'[r] = reqs[r])]_vars

\* C4 witness: a POST with a wrong token has been answered while the
\* server was unlocked.
C4_Witness ==
    \E r \in 1..MaxReq :
        /\ Http(r)
        /\ reqs[r].method = "POST"
        /\ reqs[r].authorization = Bearer("wrong")
        /\ reqs[r].pc = "done"
        /\ serverIsUnlocked

\* C5 as stated: every request with an incorrect bearer token is answered
\* with 401, whatever its method.
C5_WrongTokenAlways401 ==
    \A r \in 1..MaxReq :
        (/\ Http(r)
         /\ reqs[r].authorization # NULL
         /\ reqs[r].authorization.scheme = "Bearer"
         /\ reqs[r].authorization.token # AuthToken)
        => reqs[r].status = 401

\* C5 amended: a POST whose bearer token is missing or wrong is answered
\* with 401; OPTIONS is answered with 200 and any other method with 405
\* before the token is looked at.
C5_UnauthenticatedPost401 ==
    \A r \in 1..MaxReq :
        (Http(r) /\ Unauthenticated(reqs[r].authorization))
        => /\ reqs[r].method = "POST" => reqs[r].status = 401
           /\ reqs[r].method = "OPTIONS" => reqs[r].status = 200
           /\ reqs[r].method \notin {"POST", "OPTIONS"} => reqs[r].status = 405

\* C5 witness: a POST without a token and a GET with a wrong token have
\* both been answered.
C5_Witness ==
    \E r, t \in 1..MaxReq :
        /\ Http(r) /\ reqs[r].method = "POST" /\ reqs[r].authorization = NULL
        /\ reqs[r].status = 401
        /\ Http(t) /\ reqs[t].method = "GET"
        /\ reqs[t].authorization = Bearer("wrong")
        /\ reqs[t].status = 405

(***************************************************************************)
(* Properties of the approval dialog, checked under SpecGate and, for      *)
(* what must eventually happen, under SpecGateFair.                        *)
(***************************************************************************)

Timeout == Denied("Timeout after 30 seconds")

\* C6: the promise of an approval request is resolved at most once, and
\* once it is resolved no event (an answer, the timeout, the window being
\* closed, a load failure) changes its result, resolves it again or
\* changes what its caller answered.
C6_ResolvesOnce ==
    /\ [](\A d \in 1..MaxReq : dialogs[d].resolves <= 1)
    /\ [][\A d \in 1..MaxReq :
            dialogs[d].resolves > 0
            => (/\ dialogs'[d].result = dialogs[d].result
                /\ dialogs'[d].resolves = dialogs[d].resolves
                /\ reqs'[d] = reqs[d])]_vars

\* C6 witness: the first request has timed out, and an answer sent from
\* its window before that has since been delivered to its listener, the
\* only one ever registered; the result is still the timeout.
C6_Witness ==
    /\ dialogs[1].result = Timeout
    /\ dialogs[1].resolves = 1
    /\ dialogs[2] = NoDialog
    /\ reqs[2].pc = "idle"
    /\ listener = 0
    /\ ipc = << >>

\* C7: the delivery of an answer given in the window of one request
\* changes the dialog of no other request.
C7_AnswerStaysWithItsRequest ==
    [][(ipc # << >> /\ ipc' = Tail(ipc))
       => \A d \in 1..MaxReq :
            d # Head(ipc).from => dialogs'[d] = dialogs[d]]_vars

\* C8: at most one approval request is waiting for its decision.
C8_AtMostOnePending ==
    Cardinality({d \in 1..MaxReq : Waiting(dialogs[d])}) <= 1

C11_SecondLockWritesNothing ==
    [][(/\ ret = Ret("lock", "pending")
        /\ ~isLocked
        /\ \E sync \in BOOLEAN, iv \in IVs, ok \in BOOLEAN : lock(sync, iv, ok))
       => (writes' = writes /\ vaultFile' = vaultFile)]_vars

(***************************************************************************)
(* The debounced save with the clock running: mutations and the timer of   *)
(* _scheduleAutoSave on a vault that has been unlocked, with neither       *)
(* saveNow nor lock.                                                       *)
(***************************************************************************)
\* dt ms pass: the clock advances and every timer elapses.
passTime(dt) ==
    /\ now < MaxTicks * dt
    /\ autoLockTimer.state = "armed" => now + dt <= autoLockTimer.due
    /\ now' = now + dt
    /\ saveTimeout' = Elapse(saveTimeout, dt)
    /\ dialogs' = [d \in 1..MaxReq |-> Aged(dialogs[d], dt)]
    /\ UNCHANGED <<isLocked, data, key, saltFile, vaultFile, writes, ret>>
    /\ UNCHANGED <<serverVars, listener, ipc>>
    /\ UNCHANGED <<netVars, logs, timerVars>>

NextDebounce ==
    \/ unlock(StoredPassword) /\ UNCHANGED App
    \/ \E p \in Projects : createProject(p) /\ UNCHANGED App
    \/ \E p \in Projects : deleteProject(p) /\ UNCHANGED App
    \/ \E p \in Projects, k \in Keys, v \in Values :
            setSecret(p, k, v) /\ UNCHANGED App
    \/ \E p \in Projects, k \in Keys : deleteSecret(p, k) /\ UNCHANGED App
    \/ \E iv \in IVs : autoSave(iv) /\ UNCHANGED App
    \/ \E i \in 1..Len(writes) : writeDone(i) /\ UNCHANGED App
    \/ passTime(TickMs)

SpecDebounce == InitStored /\ [][NextDebounce]_vars

\* C12: the timer of _scheduleAutoSave starts a write only when the
\* debounce delay has passed since the last mutation, so mutations that
\* follow one another within the delay cause no write between them; the
\* write it starts is of the document in memory, which is the document
\* after the last mutation; and it leaves no timer pending, so that no
\* second write follows without a further mutation.
C12_DebounceCoalesces ==
    [][Len(writes') > Len(writes)
       => (/\ now >= data.updatedAt + DebounceMs
           /\ writes'[Len(writes')].op = "autoSave"
           /\ decryptJson(writes'[Len(writes')].blob, key) = jsonParse(jsonStringify(data))
           /\ data' = data
           /\ saveTimeout'.state # "armed")]_vars

\* C12 witness: the one write in flight was started by the timer and holds
\* a project created half a delay after the mutation that deleted it; no
\* write has reached the file, which still holds the document it was
\* opened with.
C12_Witness ==
    /\ Len(writes) = 1
    /\ writes[1].op = "autoSave"
    /\ "p1" \in DOMAIN writes[1].blob.ciphertext.projects
    /\ writes[1].blob.ciphertext.projects["p1"].createdAt = TickMs
    /\ vaultFile = encryptJson(StoredDoc, StoredKey, "iv1")


\* C13: when lock completes with nothing called since it was called, and
\* the only saves in flight are its own and those of the autosave timer, the
\* vault file opens under the key of the set-up password to the document
\* that was in memory when lock was called, so that unlock with that
\* password reads back exactly the projects and secrets of that document.
C13_RoundTrip ==
    [][(/\ ~isLocked
        /\ isLocked'
        /\ canSave
        /\ \A i \in 1..Len(writes) : writes[i].op \in {"lock", "autoSave"}
        /\ ret = Ret("lock", "pending")
        /\ ret' = Ret("lock", "ok"))
       => \A pw \in SetupPasswords :
            decryptJson(vaultFile', deriveKey(pw, fromHex(saltFile))) = data]_vars


(***************************************************************************)
(* Further properties of the server, checked under SpecServer.             *)
(***************************************************************************)

\* The actions of handleAction that need the vault unlocked.
VaultActions ==
    {"listProjects", "listSecretKeys", "getSecrets", "getSecret",
     "getBatchSecrets", "setSecret"}

\* C14: a request for an action other than "status" that is answered in
\* a step after which the vault is locked is answered with the error
\* "Vault is locked", whether the vault was locked when the request arrived
\* or was locked while the request waited for approval.
C14_LockedVaultAnswersLocked ==
    [][\A r \in 1..MaxReq :
         (/\ Http(r)
          /\ reqs[r].pc \in {"body", "approval"}
          /\ reqs'[r].pc = "done"
          /\ reqs'[r].action \in VaultActions
          /\ isLocked')
         => reqs'[r].body = Fail("Vault is locked")]_vars


\* C15: when a getBatchSecrets request is approved on a vault that is
\* unlocked, it is answered with success and with exactly those of the
\* requested keys that the project holds, each with the value the vault
\* holds for it at that moment; a requested key that the project does not
\* hold is left out and the batch still succeeds.
C15_BatchReturnsExistingKeys ==
    [][\A r \in 1..MaxReq :
         (/\ Http(r)
          /\ reqs[r].pc = "approval"
          /\ reqs'[r].pc = "done"
          /\ reqs[r].action = "getBatchSecrets"
          /\ dialogs'[r].result.approved
          /\ ~isLocked
          /\ data # NULL
          /\ reqs[r].projectName \in DOMAIN data.projects)
         => LET held == data.projects[reqs[r].projectName].secrets
            IN  reqs'[r].body =
                  Ok([kind |-> "secrets",
                      secrets |-> [k \in reqs[r].keys \cap DOMAIN held |-> held[k]]])]_vars

\* C15 witness: an approved batch that asked for a key the project does not
\* hold has been answered with the value last set for the key it holds.
C15_Witness ==
    \E r \in 1..MaxReq :
        /\ reqs[r].pc = "done"
        /\ reqs[r].action = "getBatchSecrets"
        /\ reqs[r].keys = {"k1", "k0"}
        /\ reqs[r].body = Ok([kind |-> "secrets", secrets |-> Put(<< >>, "k1", "v2")])


\* C16: with no approval callback registered, a getSecret or
\* getBatchSecrets request that reaches an unlocked server is answered in
\* the step that reads its body: the answer is "Access denied" with the
\* reason "No approval handler available", no dialog is opened, and the
\* vault is not read for it.
C16_NoHandlerDenies ==
    [][\A r \in 1..MaxReq :
         (/\ approvalCallback = NULL
          /\ serverIsUnlocked
          /\ Http(r)
          /\ reqs[r].pc = "body"
          /\ reqs'[r].pc # "body"
          /\ reqs'[r].action \in {"getSecret", "getBatchSecrets"})
         => (/\ reqs'[r].pc = "done"
             /\ reqs'[r].body = AccessDenied("No approval handler available")
             /\ SecretsIn(reqs'[r].body) = {}
             /\ ~reqs'[r].calledVault
             /\ ~reqs'[r].calledApproval
             /\ dialogs' = dialogs)]_vars

\* C16 witness: on an unlocked server without a callback a getBatchSecrets
\* request has been refused for want of an approval handler.
C16_Witness ==
    /\ approvalCallback = NULL
    /\ serverIsUnlocked
    /\ \E r \in 1..MaxReq :
         /\ reqs[r].pc = "done"
         /\ reqs[r].action = "getBatchSecrets"
         /\ reqs[r].body = AccessDenied("No approval handler available")


(***************************************************************************)
(* Stopping the server (part_004:78-95).                                   *)
(***************************************************************************)
\* A connection is open while its request has not been answered.
Open(q) == q.via = "http" /\ q.pc \in {"body", "approval"}

\* stop(), up to the callback of server.close: the server stops listening.
stop ==
    /\ server = "listening"
    /\ server' = "closing"
    /\ UNCHANGED <<vaultVars, serverVars, gateVars, infoFile, logs, timerVars>>

\* A variant of the callback that leaves server-info.json in place, to try
\* the properties on.
closeCallbackKeepsInfo ==
    /\ server = "closing"
    /\ \A r \in 1..MaxReq : ~Open(reqs[r])
    /\ server' = "closed"
    /\ UNCHANGED <<vaultVars, serverVars, gateVars, infoFile, logs, timerVars>>

\* The callback of server.close, which http.Server calls once every
\* connection has ended: server-info.json is removed and the promise of
\* stop() is resolved.
closeCallback ==
    /\ server = "closing"
    /\ \A r \in 1..MaxReq : ~Open(reqs[r])
    /\ server' = "closed"
    /\ infoFile' = FALSE
    /\ UNCHANGED <<vaultVars, serverVars, gateVars, logs, timerVars>>

\* The server from its start to its stop, with requests over HTTP.
NextStop ==
    \/ ipcUnlock(StoredPassword)
    \/ \E r \in 1..MaxReq, m \in Methods, h \in AuthHeaders : receive(r, m, h)
    \/ \E r \in 1..MaxReq, b \in Bodies, ok \in BOOLEAN : bodyEnd(r, b, ok)
    \/ NextDialogs
    \/ tick(ApprovalTickMs)
    \/ stop
    \/ closeCallback

SpecStop == InitStored /\ [][NextStop]_vars

\* The client sends the body of the request it has begun, time passes, the
\* event loop runs the callback of a timer that is due and the callback of
\* server.close when the last connection has ended.
FairStop ==
    /\ FairTimers
    /\ \A r \in 1..MaxReq : WF_vars(\E b \in Bodies, ok \in BOOLEAN : bodyEnd(r, b, ok))
    /\ WF_vars(closeCallback)

SpecStopFair == SpecStop /\ FairStop

logApp ==
    /\ now < MaxLogCalls
    /\ now' = now + 1
    /\ logs' = log(logs, LogEntry(now', "app", "event"))
    /\ UNCHANGED <<isLocked, data, key, saveTimeout, saltFile, vaultFile,
                   writes, ret>>
    /\ UNCHANGED <<serverVars, gateVars, netVars, timerVars>>

\* The log file at the start: missing, damaged or empty.
InitLogger ==
    /\ InitVault
    /\ InitApp
    /\ mainWindow = TRUE
    /\ approvalCallback = ShowApprovalDialog
    /\ logs \in {NULL, CORRUPT, LogFile(<< >>)}

NextLogger == logApp

SpecLogger == InitLogger /\ [][NextLogger]_vars

\* C18: the stored log never holds more than maxLogEntries entries, and a
\* call of log leaves in it the new entry last, preceded by the entries
\* that were stored, in their order, without the oldest ones when the cap
\* would be exceeded.
C18_LogKeepsNewest ==
    /\ [](logs.tag = "log" => Len(logs.entries) <= maxLogEntries)
    /\ [][logApp
          => LET old == readLogs(logs)
                 new == logs'.entries
                 n == Len(new)
             IN  /\ logs'.tag = "log"
                 /\ n = IF Len(old) < maxLogEntries THEN Len(old) + 1
                        ELSE maxLogEntries
                 /\ new[n].timestamp = now'
                 /\ \A i \in 1..(n - 1) : new[i] = old[Len(old) - (n - 1) + i]]_vars

\* C18 witness: the log is full and its oldest entry is the third that was
\* written: the first two have been dropped.
C18_Witness ==
    /\ logs.tag = "log"
    /\ Len(logs.entries) = maxLogEntries
    /\ logs.entries[1].timestamp = 3
    /\ logs.entries[maxLogEntries].timestamp = maxLogEntries + 2


(***************************************************************************)
(* The audit log of approvals, checked under SpecServer.                   *)
(***************************************************************************)
\* The events that state how an approval request ended.
Outcomes ==
    {"approved", "denied by user", "timeout", "dialog closed", "headless",
     "failed to load", "error", "accessed", "access denied"}

\* C19: the step in which a request for one or more secrets is answered
\* after its approval request has been resolved, by whichever path, the
\* path without a registered callback included, appends to the log an entry
\* that states the outcome and names the project and the key(s) of the
\* request.
C19_ResolutionIsLogged ==
    [][\A r \in 1..MaxReq :
         (/\ Http(r)
          /\ reqs[r].pc \in {"body", "approval"}
          /\ reqs'[r].pc = "done"
          /\ reqs'[r].action \in {"getSecret", "getBatchSecrets"}
          /\ \/ reqs[r].pc = "approval"
             \/ serverIsUnlocked)
         => \E i \in (Len(readLogs(logs)) + 1)..Len(readLogs(logs')) :
               LET message == readLogs(logs')[i].message
               IN  /\ message.event \in Outcomes
                   /\ message.projectName = reqs'[r].projectName
                   /\ message.keys = reqs'[r].keys]_vars


(***************************************************************************)
(* CryptoUtil on its own: encrypt and decrypt applied to the JSON text of  *)
(* a document, under a key derived from a password and a salt.             *)
(***************************************************************************)
\* The IVs that crypto.randomBytes(16) may return in encrypt.
RandomIVs == {"iv1", "iv2"}

\* Documents: no project, or the project with no secret, with a secret, or
\* with a secret whose value is undefined.
Documents ==
    {EmptyDoc(0)}
    \cup {[EmptyDoc(0) EXCEPT !.projects =
              Put(<< >>, p, [createdAt |-> 0, updatedAt |-> 0, secrets |-> << >>])] :
          p \in Projects}
    \cup {[EmptyDoc(0) EXCEPT !.projects =
              Put(<< >>, p, [createdAt |-> 0, updatedAt |-> 0,
                             secrets |-> Put(<< >>, k, v)])] :
          p \in Projects, k \in Keys, v \in Values \cup {UNDEFINED}}

DerivedKeys == {deriveKey(pw, s) : pw \in Passwords, s \in Salts}

InitCrypto ==
    /\ InitApp
    /\ mainWindow = TRUE
    /\ approvalCallback = ShowApprovalDialog
    /\ logs = NULL
    /\ isLocked = FALSE
    /\ data \in Documents
    /\ key \in DerivedKeys
    /\ saveTimeout = NoTimer
    /\ saltFile = toHex(key.salt)
    /\ vaultFile = NULL
    /\ writes = << >>
    /\ now = 0
    /\ ret = Ret("new", "ok")

\* encrypt(JSON.stringify(data), key), with the IV that randomBytes returns:
\* the result is kept in place of the vault file.
encryptText(iv) ==
    /\ vaultFile = NULL
    /\ vaultFile' = encrypt(jsonStringify(data), key, iv)
    /\ ret' = Ret("encrypt", "ok")
    /\ UNCHANGED <<isLocked, data, key, saveTimeout, saltFile, writes, now>>
    /\ UNCHANGED App

\* decrypt(encryptedData, k) of what encrypt returned, under any key: the
\* text it returns, or the error it throws.
decryptText(k) ==
    /\ vaultFile # NULL
    /\ ret.op = "encrypt"
    /\ ret' = [op |-> "decrypt", with |-> k, result |-> decrypt(vaultFile, k)]
    /\ UNCHANGED <<isLocked, data, key, saveTimeout, saltFile, vaultFile,
                   writes, now>>
    /\ UNCHANGED App

NextCrypto ==
    \/ \E iv \in RandomIVs : encryptText(iv)
    \/ \E k \in DerivedKeys : decryptText(k)

SpecCrypto == InitCrypto /\ [][NextCrypto]_vars

Alnum ==
    {"a", "b", "c", "d", "e", "f", "g", "h", "i", "j", "k", "l", "m", "n", "o",
     "p", "q", "r", "s", "t", "u", "v", "w", "x", "y", "z",
     "0", "1", "2", "3", "4", "5", "6", "7", "8", "9"}

\* The characters of a message.
Chars == Alnum \cup {"_", " ", ":", "=", "*", "-"}

IsWord(c) == c \in Alnum \cup {"_"}             \* \w
Space == {" "}                                  \* \s
NotSpace == Chars \ Space                       \* [^\s]
Separator == {":", "="} \cup Space              \* [:\s=]

STARS == <<"*", "*", "*">>
PASSWORD == <<"p", "a", "s", "s", "w", "o", "r", "d">>
TOKEN == <<"t", "o", "k", "e", "n">>
SK == <<"s", "k", "-">>

\* s has w at position i.
StartsWith(s, i, w) ==
    /\ i + Len(w) - 1 <= Len(s)
    /\ \A j \in 1..Len(w) : s[i + j - 1] = w[j]

Contains(s, w) == \E i \in 1..Len(s) : StartsWith(s, i, w)

\* The last position of the longest run of characters of a class from i
\* on; i - 1 when there is none.
RunEnd(s, i, class) ==
    CHOOSE e \in (i - 1)..Len(s) :
        /\ \A j \in i..e : s[j] \in class
        /\ e = Len(s) \/ s[e + 1] \notin class

\* \b before position i and after position e of a run of word characters.
BoundaryBefore(s, i) == IF i = 1 THEN TRUE ELSE ~IsWord(s[i - 1])
BoundaryAfter(s, e) == IF e = Len(s) THEN TRUE ELSE ~IsWord(s[e + 1])

\* String.prototype.replace with a string pattern: the first occurrence of
\* w in s is replaced.
ReplaceFirst(s, w, by) ==
    IF ~Contains(s, w) THEN s
    ELSE LET i == CHOOSE k \in 1..Len(s) :
                    /\ StartsWith(s, k, w)
                    /\ \A j \in 1..(k - 1) : ~StartsWith(s, j, w)
         IN  SubSeq(s, 1, i - 1) \o by \o SubSeq(s, i + Len(w), Len(s))

\* CryptoUtil.maskSensitiveValue, i18n.js:213-221.
maskSensitiveValue(value, visibleChars) ==
    IF Len(value) <= visibleChars THEN STARS
    ELSE SubSeq(value, 1, visibleChars)
         \o [j \in 1..(Len(value) - visibleChars) |-> "*"]

\* A match of word[:\s=]+([^\s]+) at position i: the separators take as
\* many characters as leave one that is no white space for the group, and
\* the group runs on to the next white space.
KeywordMatch(s, i, word) ==
    LET after == i + Len(word)
        sepEnd == RunEnd(s, after, Separator)
        starts == {g \in (after + 1)..(sepEnd + 1) : g <= Len(s) /\ s[g] \in NotSpace}
    IN  IF ~StartsWith(s, i, word) \/ starts = {}
        THEN [found |-> FALSE, group |-> 0, end |-> 0]
        ELSE LET g == CHOOSE x \in starts : \A y \in starts : y <= x
             IN  [found |-> TRUE, group |-> g, end |-> RunEnd(s, g, NotSpace)]

\* A match of \b(prefix[a-zA-Z0-9]{least,})\b at position i; 0 or its end.
KeyMatch(s, i, prefix, least) ==
    LET e == RunEnd(s, i + Len(prefix), Alnum)
    IN  IF /\ BoundaryBefore(s, i)
           /\ StartsWith(s, i, prefix)
           /\ e - (i + Len(prefix)) + 1 >= least
           /\ BoundaryAfter(s, e)
        THEN e ELSE 0

\* message.replace(/\b(sk-[a-zA-Z0-9]{20,})\b/g, ...), part_005:155-157.
RECURSIVE maskApiKeys(_, _)
maskApiKeys(s, i) ==
    IF i > Len(s) THEN << >>
    ELSE LET e == KeyMatch(s, i, SK, 20)
         IN  IF e # 0
             THEN maskSensitiveValue(SubSeq(s, i, e), 6) \o maskApiKeys(s, e + 1)
             ELSE <<s[i]>> \o maskApiKeys(s, i + 1)

\* message.replace(/\b([a-zA-Z0-9]{32,})\b/g, ...), part_005:160-162.
RECURSIVE maskLongKeys(_, _)
maskLongKeys(s, i) ==
    IF i > Len(s) THEN << >>
    ELSE LET e == IF s[i] \in Alnum THEN KeyMatch(s, i, << >>, 32) ELSE 0
         IN  IF e # 0
             THEN maskSensitiveValue(SubSeq(s, i, e), 4) \o maskLongKeys(s, e + 1)
             ELSE <<s[i]>> \o maskLongKeys(s, i + 1)

\* message.replace(/password[:\s=]+([^\s]+)/gi, (match, password) =>
\* match.replace(password, "***")), part_005:165-167.
RECURSIVE maskPasswords(_, _)
maskPasswords(s, i) ==
    IF i > Len(s) THEN << >>
    ELSE LET m == KeywordMatch(s, i, PASSWORD)
         IN  IF m.found
             THEN ReplaceFirst(SubSeq(s, i, m.end), SubSeq(s, m.group, m.end), STARS)
                  \o maskPasswords(s, m.end + 1)
             ELSE <<s[i]>> \o maskPasswords(s, i + 1)

\* message.replace(/\b(token[:\s=]+)([^\s]+)/gi, (match, prefix, token) =>
\* prefix + maskSensitiveValue(token, 4)), part_005:170-172.
RECURSIVE maskTokens(_, _)
maskTokens(s, i) ==
    IF i > Len(s) THEN << >>
    ELSE LET m == IF BoundaryBefore(s, i) THEN KeywordMatch(s, i, TOKEN)
                  ELSE [found |-> FALSE, group |-> 0, end |-> 0]
         IN  IF m.found
             THEN SubSeq(s, i, m.group - 1)
                  \o maskSensitiveValue(SubSeq(s, m.group, m.end), 4)
                  \o maskTokens(s, m.end + 1)
             ELSE <<s[i]>> \o maskTokens(s, i + 1)

maskSensitiveInfo(message) ==
    maskTokens(maskPasswords(maskLongKeys(maskApiKeys(message, 1), 1), 1), 1)

(***************************************************************************)
(* The Logger given messages that hold a password.                         *)
(***************************************************************************)
\* The characters of the values: two of the word "password", one that is
\* not, and a separator.
ValueChars == {"p", "a", "x", "="}

\* The non-empty values without white space.
SecretValues == UNION {[1..n -> ValueChars] : n \in 1..MaxValueLen}

\* logger.log("password=" + v): the message is masked and stored
\* (part_005:19-49).
logPassword(v) ==
    /\ Len(readLogs(logs)) < MaxMaskCalls
    /\ logs' = log(logs, LogEntry(now, "app",
                                  maskSensitiveInfo(PASSWORD \o <<"=">> \o v)))
    /\ UNCHANGED <<vaultVars, serverVars, gateVars, netVars, timerVars>>

NextMask == \E v \in SecretValues : logPassword(v)

SpecMask == InitLogger /\ [][NextMask]_vars

\* C21: whatever the non-empty value without white space, the message
\* stored for "password=" followed by the value does not hold the value.
C21_PasswordIsMasked ==
    [][\A v \in SecretValues :
         logPassword(v) =>
            ~Contains(logs'.entries[Len(logs'.entries)].message, v)]_vars


\* C22: when the write of the encrypted document fails in setup(), the
\* salt file written by that setup is removed: afterwards there is neither
\* a salt file nor a vault file, and exists() is false.
C22_FailedSetupRemovesSalt ==
    [][\A i \in DOMAIN writes :
         (writes[i].op = "setup" /\ writeFailed(i)) =>
            (saltFile' = NULL /\ vaultFile' = NULL /\ ~exists')]_vars


(***************************************************************************)
(* unlock() on a vault file that does not open.  The vault on disk is the  *)
(* stored one, a damaged one, or one whose text, sealed with the stored    *)
(* key, is no JSON.                                                        *)
(***************************************************************************)
NotJson == [tag |-> "text"]

VaultFiles ==
    {encryptJson(StoredDoc, StoredKey, "iv1"),
     CORRUPT,
     encrypt(NotJson, StoredKey, "iv1")}

InitUnlock ==
    /\ isLocked = TRUE
    /\ data = NULL
    /\ key = NULL
    /\ saveTimeout = NoTimer
    /\ saltFile = toHex("s1")
    /\ vaultFile \in VaultFiles
    /\ writes = << >>
    /\ now = 0
    /\ ret = Ret("new", "ok")
    /\ InitApp
    /\ mainWindow = TRUE
    /\ approvalCallback = ShowApprovalDialog
    /\ logs = NULL

SpecUnlock == InitUnlock /\ [][NextVault]_vars

\* Why the vault file does not open with a password: the file is damaged,
\* the password derives another key than the one that sealed it, or the
\* text it holds is no JSON.
WrongPassword(password) ==
    IF vaultFile.tag = "blob"
    THEN vaultFile.sealedBy # deriveKey(password, fromHex(saltFile))
    ELSE FALSE

Damaged == vaultFile.tag # "blob"

PayloadNotJson(password) ==
    IF vaultFile.tag = "blob"
    THEN /\ vaultFile.sealedBy = deriveKey(password, fromHex(saltFile))
         /\ vaultFile.ciphertext.tag # "json"
    ELSE FALSE

\* C23: on an existing vault, unlock() that fails because of a wrong
\* password, a damaged vault file or a decrypted text that is no JSON
\* reports 'Invalid password' and leaves the state that depends on the
\* state before only: no key, no document, everything else as it was.
C23_UnlockFailuresAlike ==
    [][\A pw \in Passwords :
         (/\ exists
          /\ WrongPassword(pw) \/ Damaged \/ PayloadNotJson(pw)
          /\ unlock(pw))
         => /\ ret' = Ret("unlock", "Invalid password")
            /\ key' = NULL
            /\ data' = NULL
            /\ UNCHANGED <<isLocked, saveTimeout, saltFile, vaultFile, writes>>]_vars

C23_Witness ==
    /\ ret = Ret("unlock", "Invalid password")
    /\ vaultFile = encrypt(NotJson, StoredKey, "iv1")
    /\ key = NULL
    /\ data = NULL


(***************************************************************************)
(* The auto-lock timer of the main process (main.js:131-141), with the     *)
(* handlers that set it, the handlers that read and change the vault, and  *)
(* the clock.                                                              *)
(***************************************************************************)
NextAutoLock ==
    \/ \E pw \in SetupPasswords, s \in generateSalt, iv \in IVs : ipcSetup(pw, s, iv)
    \/ \E i \in 1..Len(writes) : ipcSetupDone(i)
    \/ \E pw \in Passwords : ipcUnlock(pw)
    \/ \E iv \in IVs : ipcLock(iv)
    \/ \E iv \in IVs : autoLock(iv)
    \/ ipcProjectsGet
    \/ \E p \in Projects : ipcProjectCreate(p)
    \/ \E iv \in IVs : autoSave(iv) /\ UNCHANGED App
    \/ \E i \in 1..Len(writes) : writes[i].op # "setup" /\ writeDone(i) /\ UNCHANGED App
    \/ \E i \in 1..Len(writes) : writeFailed(i) /\ UNCHANGED App
    \/ passTime(AutoLockTickMs)

SpecAutoLock == Init /\ [][NextAutoLock]_vars

\* vault.lock() is running: its write is in flight.
Locking == \E i \in 1..Len(writes) : writes[i].op = "lock"

\* C24: the callback of the auto-lock timer runs when five minutes have
\* passed since the last "vault:setup" or "vault:unlock" that succeeded,
\* whatever was read, changed or requested in between; and when the vault
\* is unlocked at that time, and is not being locked already, it calls
\* lock(): the vault is locked or the write of lock() is started.
C24_AutoLockAfterFiveMinutes ==
    [][\A iv \in IVs :
         autoLock(iv) =>
            /\ now = unlockedAt + AutoLockMs
            /\ (~isLocked /\ ~Locking) => (isLocked' \/ Locking')]_vars


\* C25: once an approval request has been resolved, by whichever path, its
\* timeout is cancelled, its window is closed and the listener on the
\* channel "approval-response-simple" is not the one of that request.
C25_ResolvedIsCleanedUp ==
    \A d \in 1..MaxReq :
        dialogs[d].resolves > 0 =>
            /\ dialogs[d].timeout.state # "armed"
            /\ dialogs[d].window \notin {"loading", "loaded"}
            /\ listener # d


\* C26: isLocked goes from true to false only in the step that ends a
\* setup() or an unlock() that succeeded, and from false to true only in a
\* step of lock(); no other step changes it.
C26_LockFlagChanges ==
    [][/\ (isLocked /\ ~isLocked') =>
             (ret'.op \in {"setup", "unlock"} /\ ret'.result = "ok")
       /\ (~isLocked /\ isLocked') =>
             (ret'.op = "lock" /\ ret'.result = "ok")]_vars

\* C26 witness: a vault that setup() unlocked has been locked by lock(),
\* whose write has reached the file.
C26_Witness ==
    /\ isLocked
    /\ ret = Ret("lock", "ok")
    /\ exists
    /\ data = NULL
    /\ writes = << >>


(***************************************************************************)
(* The mutations and reads of the Vault with the names of the stored       *)
(* document, which are its project and key until they are deleted, and a   *)
(* name that every object inherits.                                        *)
(***************************************************************************)
ProjectNames == Projects \cup ObjectPrototype
KeyNames == Keys \cup ObjectPrototype

\* A call of getSecrets and of getSecret: how it ended.
callGetSecrets(projectName) ==
    /\ ret' = Ret("getSecrets", IF getSecrets(projectName).error = "" THEN "ok"
                                ELSE getSecrets(projectName).error)
    /\ UNCHANGED <<isLocked, data, key, saveTimeout, saltFile, vaultFile,
                   writes, now>>

callGetSecret(projectName, k) ==
    /\ ret' = Ret("getSecret", IF getSecret(projectName, k).error = "" THEN "ok"
                               ELSE getSecret(projectName, k).error)
    /\ UNCHANGED <<isLocked, data, key, saveTimeout, saltFile, vaultFile,
                   writes, now>>

NextNames ==
    \/ unlock(StoredPassword) /\ UNCHANGED App
    \/ \E p \in ProjectNames : createProject(p) /\ UNCHANGED App
    \/ \E p \in ProjectNames : deleteProject(p) /\ UNCHANGED App
    \/ \E p \in ProjectNames, k \in KeyNames : setSecret(p, k, "v1") /\ UNCHANGED App
    \/ \E p \in ProjectNames, k \in KeyNames : deleteSecret(p, k) /\ UNCHANGED App
    \/ \E p \in ProjectNames : callGetSecrets(p) /\ UNCHANGED App
    \/ \E p \in ProjectNames, k \in KeyNames : callGetSecret(p, k) /\ UNCHANGED App
    \/ \E iv \in IVs : autoSave(iv) /\ UNCHANGED App
    \/ \E i \in 1..Len(writes) : writeDone(i) /\ UNCHANGED App
    \/ passTime(TickMs)

InitNames ==
    /\ InitStored
    /\ mainWindow = TRUE
    /\ approvalCallback = ShowApprovalDialog

SpecNames == InitNames /\ [][NextNames]_vars

\* The vault is unlocked and holds a document, of which name is (not) a
\* project and k is (not) a key of that project.
IsProject(name) == Refusal = "ok" /\ name \in DOMAIN data.projects
NoProject(name) == Refusal = "ok" /\ name \notin DOMAIN data.projects
NoKey(name, k) ==
    IF IsProject(name)
    THEN IF k \in DOMAIN data.projects[name].secrets
         THEN data.projects[name].secrets[k] = UNDEFINED
         ELSE TRUE
    ELSE FALSE

\* The call ended with an error and left the document, with its time
\* stamps, and the timer of the pending save as they were.
FailsUntouched(op) ==
    /\ ret'.op = op
    /\ ret'.result # "ok"
    /\ UNCHANGED <<data, saveTimeout>>

\* C27: createProject with the name of a project, deleteProject,
\* getSecrets, setSecret and deleteSecret with a name that is no project,
\* and getSecret and deleteSecret with a key the project does not have,
\* each fail with an error and leave the document, its time stamps and the
\* timer of the pending save as they were.
C27_FailuresChangeNothing ==
    [][\A p \in ProjectNames, k \in KeyNames :
         /\ (IsProject(p) /\ createProject(p)) => FailsUntouched("createProject")
         /\ (NoProject(p) /\ deleteProject(p)) => FailsUntouched("deleteProject")
         /\ (NoProject(p) /\ callGetSecrets(p)) => FailsUntouched("getSecrets")
         /\ (NoProject(p) /\ setSecret(p, k, "v1")) => FailsUntouched("setSecret")
         /\ (NoProject(p) /\ deleteSecret(p, k)) => FailsUntouched("deleteSecret")
         /\ (NoKey(p, k) /\ callGetSecret(p, k)) => FailsUntouched("getSecret")
         /\ (NoKey(p, k) /\ deleteSecret(p, k)) => FailsUntouched("deleteSecret")]_vars


(***************************************************************************)
(* The server with a log file that cannot always be written.               *)
(* fs.writeFileSync in Logger.log (part_005:48) is in no try block: when   *)
(* it fails, log() throws into its caller.                                 *)
(***************************************************************************)
\* The callback of the timeout of dialog d (main.js:461-464) when
\* logger.log throws: the callback ends before it calls doResolve.  The
\* timer is spent; the window, the listener and the request stay.
timeoutThrows(d) ==
    /\ dialogs[d].timeout = Armed(0)
    /\ dialogs' = [dialogs EXCEPT ![d].timeout = Fired]
    /\ logs' \in {logs, CORRUPT}
    /\ UNCHANGED <<vaultVars, serverVars, listener, ipc, netVars, timerVars>>

NextAnswer ==
    \/ ipcUnlock(StoredPassword)
    \/ \E r \in 1..MaxReq, m \in Methods, h \in AuthHeaders : receive(r, m, h)
    \/ \E r \in 1..MaxReq, b \in Bodies, ok \in BOOLEAN : bodyEnd(r, b, ok)
    \/ NextDialogs
    \/ \E d \in 1..MaxReq : timeoutThrows(d)
    \/ tick(ApprovalTimeoutMs)

SpecAnswer == InitStored /\ [][NextAnswer]_vars

\* The client sends the body of the request it has begun, a window ends
\* loading, an answer sent by a window is delivered, time passes and the
\* event loop runs the callback of a timer that is due.  What the user
\* does is left open.
FairAnswer ==
    /\ WF_vars(tick(ApprovalTimeoutMs))
    /\ WF_vars(deliver)
    /\ \A d \in 1..MaxReq : WF_vars(finishLoad(d) \/ failLoad(d))
    /\ \A d \in 1..MaxReq : WF_vars(timeoutFires(d) \/ timeoutThrows(d))
    /\ \A r \in 1..MaxReq : WF_vars(\E b \in Bodies, ok \in BOOLEAN : bodyEnd(r, b, ok))

SpecAnswerFair == SpecAnswer /\ FairAnswer

\* A response {success, data | error}.
IsResponse(body) ==
    IF body = NULL THEN FALSE
    ELSE IF body.success THEN body.error = ""
    ELSE body.error # ""

\* C28: every POST request that has passed the authentication is answered
\* in the end, with {success, data | error}, and its answer is not
\* followed by another one, whatever the action and the payload and
\* whether the dialog is approved, denied, closed or left alone.
C28_EveryRequestAnswered ==
    /\ [][\A r \in 1..MaxReq :
            reqs[r].pc = "done" => reqs'[r] = reqs[r]]_vars
    /\ \A r \in 1..MaxReq :
            (reqs[r].pc = "body")
                ~> (reqs[r].pc = "done" /\ IsResponse(reqs[r].body))


\* Both files of the vault are on disk.
OnDisk == vaultFile # NULL /\ saltFile # NULL

\* C29: once the salt file and the vault file are both on disk, no step
\* changes the salt file, and setup is rejected with 'Vault already
\* exists'.
C29_SaltIsKept ==
    [][OnDisk =>
          /\ saltFile' = saltFile
          /\ \A pw \in SetupPasswords, s \in Salts, iv \in IVs :
                setup(pw, s, iv) => ret' = Ret("setup", "Vault already exists")]_vars

\* C29 witness: setup has been rejected on a vault that is on disk, unlocked
\* and changed since it was set up.
C29_Witness ==
    /\ OnDisk
    /\ ret = Ret("setup", "Vault already exists")
    /\ ~isLocked
    /\ data # NULL
    /\ data.projects # << >>


(***************************************************************************)
(* Logger.getLogs.  The two files of the Logger differ in it: the catch    *)
(* block of both calls this.logError, which logger.js defines (84-87) and  *)
(* part_005 does not.                                                      *)
(***************************************************************************)
Returned(error, entries) == [error |-> error, logs |-> entries]

\* getLogs(), part_005:82-94.  On a file that does not parse, the call of
\* the missing method raises a TypeError inside the catch block.
getLogs ==
    /\ ret' = Ret("getLogs",
                  IF logs = NULL THEN Returned("", << >>)
                  ELSE IF logs.tag = "log" THEN Returned("", logs.entries)
                  ELSE Returned("TypeError", << >>))
    /\ UNCHANGED <<isLocked, data, key, saveTimeout, saltFile, vaultFile,
                   writes, now>>
    /\ UNCHANGED <<App>>

\* getLogs(), logger.js:93-105.  On a file that does not parse, logError
\* logs the failure, which writes the file anew, and [] is returned.
getLogsOfLoggerJs ==
    /\ ret' = Ret("getLogs",
                  IF logs = NULL THEN Returned("", << >>)
                  ELSE IF logs.tag = "log" THEN Returned("", logs.entries)
                  ELSE Returned("", << >>))
    /\ logs' = IF logs = NULL \/ logs.tag = "log" THEN logs
               ELSE log(logs, LogEntry(now, "error", "ERROR: Failed to read log file"))
    /\ UNCHANGED <<isLocked, data, key, saveTimeout, saltFile, vaultFile,
                   writes, now>>
    /\ UNCHANGED <<serverVars, gateVars, netVars, timerVars>>

NextReadLogs ==
    \/ \E v \in SecretValues : logPassword(v)
    \/ getLogs
    \/ getLogsOfLoggerJs

SpecReadLogs == InitLogger /\ [][NextReadLogs]_vars

\* C30: on a log file that does not parse, log() leaves a log that holds
\* the new entry alone, and getLogs() returns the empty list and raises
\* no error.
C30_CorruptLogIsTolerated ==
    [][logs = CORRUPT =>
          /\ (\E v \in SecretValues : logPassword(v))
                => (/\ logs'.tag = "log"
                    /\ Len(logs'.entries) = 1
                    /\ logs'.entries[1].timestamp = now)
          /\ (getLogs \/ getLogsOfLoggerJs)
                => ret' = Ret("getLogs", Returned("", << >>))]_vars


(***************************************************************************)
(* unlock() on a vault that is unlocked, checked under SpecDebounce.       *)
(***************************************************************************)

\* C31: unlock() with the right password on a vault that is unlocked keeps
\* the projects and secrets of the document in memory, those changed since
\* the last save included.
C31_UnlockKeepsMutations ==
    [][\A pw \in Passwords :
         (/\ ~isLocked
          /\ data # NULL
          /\ unlock(pw)
          /\ ret'.result = "ok")
         => data'.projects = data.projects]_vars


(***************************************************************************)
(* The flags of the application and of the server against the Vault,       *)
(* checked under SpecAutoLock.                                             *)
(***************************************************************************)

\* C32: the server never reports unlocked for a vault that is locked, and
\* whenever no handler and no lock() is suspended in a write of the vault
\* file, the server's isUnlocked is the negation of the vault's isLocked.
C32_ServerFlagFollowsVault ==
    /\ ~(serverIsUnlocked /\ isLocked)
    /\ writes = << >> => serverIsUnlocked = ~isLocked


\* Every fs.writeFile of the vault file calls back, with or without an
\* error, and the handler that awaits it runs on.
FairWrites ==
    \A i \in 1..MaxInFlight :
        WF_vars(/\ i <= Len(writes)
                /\ IF writes[i].op = "setup"
                   THEN ipcSetupDone(i) \/ (writeFailed(i) /\ UNCHANGED App)
                   ELSE (writeDone(i) \/ writeFailed(i)) /\ UNCHANGED App)

SpecAutoLockFair == SpecAutoLock /\ FairWrites

\* C33: once lockVault has run and the application holds the vault to be
\* locked, the Vault comes to hold no key and no document, also when the
\* save of lock() fails.
C33_LockedHoldsNothing ==
    (~isUnlocked /\ ret.op = "lock") ~> (key = NULL /\ data = NULL)


(***************************************************************************)
(* Locking while a request waits for its approval, checked under           *)
(* SpecServer.                                                             *)
(***************************************************************************)

\* C34: a request that waits for its approval while lockVault runs, and
\* is answered while the application still holds the vault to be locked,
\* is answered without a secret value.
C34_NoSecretOnceLocked ==
    [][\A r \in 1..MaxReq :
         (/\ Http(r)
          /\ reqs[r].pc = "approval"
          /\ reqs'[r].pc = "done"
          /\ ~serverIsUnlocked
          /\ ~isUnlocked)
         => SecretsIn(reqs'[r].body) = {}]_vars


(***************************************************************************)
(* The audit log against the results of the approval requests, checked     *)
(* under SpecGate.                                                         *)
(***************************************************************************)

\* C35: an entry 'approved' is added to the log only by the listener of a
\* request whose result is then the approval; an answer that reaches the
\* listener of a request already resolved as denied adds none.
C35_ApprovedEntryMeansApproved ==
    [][\A i \in (Len(readLogs(logs)) + 1)..Len(readLogs(logs')) :
         readLogs(logs')[i].message.event = "approved"
         => (listener # 0 /\ dialogs'[listener].result = Approved)]_vars


(***************************************************************************)
(* The saves of an unlocked vault: mutations, the debounce timer, saveNow  *)
(* and the callbacks of the writes, none of which fails.  unlock() is       *)
(* called on the locked vault only.                                        *)
(***************************************************************************)
NextSaves ==
    \/ isLocked /\ unlock(StoredPassword) /\ UNCHANGED App
    \/ \E p \in Projects : createProject(p) /\ UNCHANGED App
    \/ \E p \in Projects : deleteProject(p) /\ UNCHANGED App
    \/ \E p \in Projects, k \in Keys, v \in Values :
            setSecret(p, k, v) /\ UNCHANGED App
    \/ \E p \in Projects, k \in Keys : deleteSecret(p, k) /\ UNCHANGED App
    \/ \E iv \in IVs : autoSave(iv) /\ UNCHANGED App
    \/ \E iv \in IVs : saveNow(iv) /\ UNCHANGED App
    \/ \E i \in 1..Len(writes) : writeDone(i) /\ UNCHANGED App
    \/ tick(TickMs)

SpecSaves == InitNames /\ [][NextSaves]_vars

\* C36: whenever the vault is unlocked, no debounce timer is pending and no
\* write is in flight, the vault file, unless overlapping writes have left
\* it unreadable, opens under the key to the document in memory.
C36_DiskFollowsMemory ==
    (/\ ~isLocked
     /\ data # NULL
     /\ saveTimeout.state # "armed"
     /\ writes = << >>
     /\ vaultFile # CORRUPT)
    => decryptJson(vaultFile, key) = jsonParse(jsonStringify(data))


(***************************************************************************)
(* The vault file while the vault is locked, checked under SpecVault.      *)
(***************************************************************************)

\* C37: while the vault is locked and holds no document, no step that is
\* not one of setup starts a write of the vault file or puts another
\* document into the file.
C37_LockedFileUntouched ==
    [][(/\ isLocked
        /\ data = NULL
        /\ ret'.op # "setup"
        /\ vaultFile # CORRUPT
        /\ vaultFile' # CORRUPT)
       => /\ Len(writes') <= Len(writes)
          /\ vaultFile' = vaultFile]_vars


(***************************************************************************)
(* What an approval dialog shows against what its request returns.  The    *)
(* vault on disk holds one project with two secrets, and the requests ask  *)
(* for one of them or for both.                                            *)
(***************************************************************************)
ShownKeys == {"k1", "k2"}

ShownDoc ==
    [EmptyDoc(0) EXCEPT !.projects =
        Put(<< >>, "p1", [createdAt |-> 0, updatedAt |-> 0,
                          secrets |-> Put(Put(<< >>, "k1", "v1"), "k2", "v2")])]

ShownBodies ==
    {Body("getSecret", "p1", k, {}, "") : k \in ShownKeys}
    \cup {Body("getBatchSecrets", "p1", "", ks, "") : ks \in SUBSET ShownKeys \ {{}}}

InitShown ==
    /\ isLocked = TRUE
    /\ data = NULL
    /\ key = NULL
    /\ saveTimeout = NoTimer
    /\ saltFile = toHex("s1")
    /\ vaultFile = encryptJson(ShownDoc, StoredKey, "iv1")
    /\ writes = << >>
    /\ now = 0
    /\ ret = Ret("new", "ok")
    /\ InitApp
    /\ mainWindow = TRUE
    /\ approvalCallback = ShowApprovalDialog
    /\ logs = NULL

NextShown ==
    \/ ipcUnlock(StoredPassword)
    \/ \E r \in 1..MaxReq : receive(r, "POST", Bearer(AuthToken))
    \/ \E r \in 1..MaxReq, b \in ShownBodies : bodyEnd(r, b, TRUE)
    \/ NextDialogs
    \/ tick(ApprovalTimeoutMs)

SpecShown == InitShown /\ [][NextShown]_vars

\* The keys whose values a response carries.
KeysIn(q) ==
    IF SecretsIn(q.body) = {} THEN {}
    ELSE IF q.body.data.kind = "value" THEN {q.key}
    ELSE DOMAIN q.body.data.secrets

\* C38: a response comes to carry secret values only by an answer given in
\* a dialog window, and the values are of the project and of keys that
\* this window showed.
C38_OnlyWhatWasShown ==
    [][\A r \in 1..MaxReq :
         (Http(r) /\ SecretsIn(reqs[r].body) = {} /\ SecretsIn(reqs'[r].body) # {})
         => IF ipc = << >> THEN FALSE
            ELSE /\ reqs'[r].projectName = reqs[Head(ipc).from].projectName
                 /\ KeysIn(reqs'[r]) \subseteq reqs[Head(ipc).from].keys]_vars

=============================================================================
